---- MODULE Spec2Model ----
(***************************************************************************)
(* Model of the content-sync and briefing-generation pipeline of the      *)
(* Daily Digest backend (src/app).                                        *)
(*                                                                         *)
(* The persistence store is the only shared resource.  Every task and     *)
(* request holds its own SQLAlchemy session (autoflush=False), so a       *)
(* session's pending inserts and attribute changes reach the store        *)
(* atomically at db.commit(): the flush either applies all of them or, on *)
(* a unique-constraint violation, none.  For a loaded row the flush emits *)
(* an UPDATE of exactly the columns whose assigned value differs from the *)
(* value the session loaded; for a row expired by a rollback every        *)
(* assigned column is written.                                            *)
(*                                                                         *)
(* Spec      : briefing generation state machine for one (user, date).    *)
(* SyncSpec  : reconciliation runs (sync_data_source) over one source.    *)
(* PrefSpec  : Spec for a user who has saved preferences.                 *)
(* SelectSpec: select_content_for_briefing as a function of the store.    *)
(* ClassifierSpec : the two classifiers as functions of item and answer.  *)
(* ClassifySpec, ClassifyFairSpec : classify_pending_content runs.        *)
(***************************************************************************)
EXTENDS Integers, Sequences, FiniteSets, Bags, TLC

\* ------------------------------------------------------------------ bounds
MaxTasks == 2
MaxItems == 2
MaxBatch == 1
MaxSyncs == 2

\* ------------------------------------------------------- program constants
\* settings.BRIEFING_DURATION_SECONDS
BRIEFING_DURATION_SECONDS == 120
\* settings.MAX_CONTENT_ITEMS_PER_BRIEFING
MAX_CONTENT_ITEMS_PER_BRIEFING == 10
\* settings.MIN_RELEVANCE_SCORE, in tenths (0.3)
MIN_RELEVANCE_SCORE == 3
\* the sweep's generation window, in seconds
GENERATION_WINDOW_SECONDS == 3600

VARIABLES
    user_active,      \* User.is_active and User.deleted_at IS NULL
    data_sources,     \* table data_sources
    content_items,    \* table content_items
    classifications,  \* table content_classifications
    preferences,      \* table user_preferences
    cutoff,           \* utcnow() - 24h, on the scale of published_at
    briefings,        \* table briefings
    briefing_content, \* table briefing_content
    next_id,          \* next fresh primary key (uuid4)
    gen,              \* bag of the generate_briefing tasks queued or running
    trig,             \* the trigger_briefing_generation request
    returned,         \* what the call that finished last returned
    sync,             \* bag of the sync_data_source tasks queued or running
    sync_logs,        \* table sync_logs
    now,              \* datetime.utcnow(), counted in task starts
    call,             \* the last call of a service function: its
                      \* arguments and its outcome
    openai_client,    \* whether settings.OPENAI_API_KEY is set
    classifying       \* bag of the classify_pending_content tasks queued
                      \* or running

vars == <<user_active, data_sources, content_items, classifications,
          preferences, cutoff, briefings, briefing_content, next_id, gen, trig,
          returned, sync, sync_logs, now, call, openai_client, classifying>>

\* ------------------------------------------------------------- vocabulary
NULL == "NULL"
TheUser == "user-1"
TheDate == "today"
TheSource == "source-1"

\* BriefingStatus
PENDING == "pending"
GENERATING == "generating"
READY == "ready"
DELIVERED == "delivered"
FAILED == "failed"

\* error texts stored in Briefing.error_message
NoContentMsg == "No content available for briefing"
ImportErrMsg == "cannot import name 'UserPreferences' from 'app.models.user'"
RenderErrMsg == "audio rendering or storage error"
IntegrityErrMsg == "duplicate key value violates unique constraint"


\* ------------------------------------------------------------- sequences
RECURSIVE Perms(_)
Perms(S) ==
    IF S = {} THEN {<< >>}
    ELSE UNION {{<<x>> \o p : p \in Perms(S \ {x})} : x \in S}

Take(s, n) == SubSeq(s, 1, IF n < Len(s) THEN n ELSE Len(s))

Range(s) == {s[k] : k \in 1..Len(s)}

\* ------------------------------------------------------------ data model
\* Briefing row.  A NULL text_summary is << >>, a NULL audio_file_url or
\* audio_duration_seconds is 0; generated_at and delivered_at record whether
\* a timestamp is stored.  text_summary is the sequence of content ids the
\* summary was made from, audio_file_url the briefing id in /storage/<id>.mp3.
NewBriefing(id, user_id, date, status) ==
    [id |-> id, user_id |-> user_id, date |-> date, status |-> status,
     text_summary |-> << >>, audio_file_url |-> 0,
     audio_duration_seconds |-> 0, content_items_count |-> 0,
     generated_at |-> FALSE, delivered_at |-> FALSE, error_message |-> NULL]

\* the value of "existing_briefing" when the query finds no row
NoRow == NewBriefing(0, NULL, NULL, NULL)

\* uq_briefing_user_date
BriefingKeyTaken_NoConstraint(rows, user_id, date) == FALSE

BriefingKeyTaken(rows, user_id, date) ==
    \E r \in rows : r.user_id = user_id /\ r.date = date

\* uq_briefing_content
LinkKeyTaken(rows, briefing_id, content_id) ==
    \E r \in rows : r.briefing_id = briefing_id /\ r.content_id = content_id

\* uq_content_source_external
ContentKeyTaken_NoConstraint(rows, source_id, external_id) == FALSE

ContentKeyTaken(rows, source_id, external_id) ==
    \E r \in rows : r.source_id = source_id /\ r.external_id = external_id

\* db.query(Briefing).filter(user_id, date).first()
FindBriefing(rows, user_id, date) ==
    IF \E r \in rows : r.user_id = user_id /\ r.date = date
    THEN CHOOSE r \in rows : r.user_id = user_id /\ r.date = date
    ELSE NoRow

RowById(rows, id) == CHOOSE r \in rows : r.id = id

\* The UPDATE a flush emits for a loaded row: the assigned columns whose
\* value differs from the loaded one (`loaded` holds the loaded value of the
\* columns that are compared; the others are written).
OrmUpdate(row, loaded, assigned) ==
    [f \in DOMAIN row |->
        IF /\ f \in DOMAIN assigned
           /\ (f \in DOMAIN loaded => assigned[f] # loaded[f])
        THEN assigned[f] ELSE row[f]]

\* The UPDATE a flush emits for a row expired by a rollback: every assigned
\* column.
OrmUpdateExpired(row, assigned) ==
    [f \in DOMAIN row |-> IF f \in DOMAIN assigned THEN assigned[f] ELSE row[f]]

ReplaceRow(rows, new) == {IF r.id = new.id THEN new ELSE r : r \in rows}

\* ---------------------------------------------------------------- selector
ClassificationOf(cls, id) == CHOOSE c \in cls : c.content_id = id

\* line 137: the preferences' threshold, or the setting when there are none
MinRelevance(prefs, user_id) ==
    IF \E p \in prefs : p.user_id = user_id
    THEN (CHOOSE p \in prefs : p.user_id = user_id).min_relevance_score
    ELSE MIN_RELEVANCE_SCORE

\* the rows of the joined, filtered query
CandidateIds(items, cls, sources, prefs, cut, user_id) ==
    {i.id : i \in {x \in items :
        /\ \E s \in sources :
              s.id = x.source_id /\ s.user_id = user_id /\ s.is_active
        /\ x.published_at >= cut
        /\ \E c \in cls : c.content_id = x.id
              /\ c.relevance_score >= MinRelevance(prefs, user_id)}}

\* ORDER BY relevance_score DESC, importance_score DESC
RankedBefore(cls, a, b) ==
    LET ca == ClassificationOf(cls, a)
        cb == ClassificationOf(cls, b)
    IN  \/ ca.relevance_score > cb.relevance_score
        \/ /\ ca.relevance_score = cb.relevance_score
           /\ ca.importance_score >= cb.importance_score

IsRanked(cls, s) ==
    \A k \in 1..Len(s) : \A l \in 1..Len(s) :
        k < l => RankedBefore(cls, s[k], s[l])

\* select_content_for_briefing: every list the query may return (rows that
\* tie on both scores come in any order), limited to 2 * max_items, cut to
\* max_items.  max_items = 0 stands for None.
SelectContent(items, cls, sources, prefs, cut, user_id, max_items) ==
    LET m == IF max_items = 0 THEN MAX_CONTENT_ITEMS_PER_BRIEFING
             ELSE max_items
        C == CandidateIds(items, cls, sources, prefs, cut, user_id)
    IN  {Take(Take(s, m * 2), m) : s \in {p \in Perms(C) : IsRanked(cls, p)}}

\* the names src/app/models/user.py defines
ModelsUserNames == {"SubscriptionStatus", "User"}

\* select_content_for_briefing as a call: line 128 imports UserPreferences
\* from app.models.user, which does not define it (the class lives in
\* app.models.preferences), so the call raises ImportError before it
\* queries anything
SelectContentCall(items, cls, sources, prefs, cut, user_id, max_items) ==
    IF "UserPreferences" \in ModelsUserNames
    THEN [raised |-> FALSE, text |-> NULL,
          lists |-> SelectContent(items, cls, sources, prefs, cut, user_id,
                                  max_items)]
    ELSE [raised |-> TRUE, text |-> ImportErrMsg, lists |-> {}]

\* a call of select_content_for_briefing(user_id, max_items) and how it
\* ended; max_items = 0 stands for None, the parameter's default
SelectCalled(user_id, max_items, outcome) ==
    [fn |-> "select_content_for_briefing", user_id |-> user_id,
     max_items |-> max_items, raised |-> outcome.raised,
     lists |-> outcome.lists]

\* ------------------------------------------------- generate_briefing task
\* What a session keeps of the briefing row it loaded, for the columns whose
\* loaded value can equal an assigned one while the stored one differs.  The
\* other assigned columns (text_summary, audio_file_url,
\* audio_duration_seconds, generated_at) either differ from the loaded value
\* on every successful commit or hold the one value ever stored in them, so
\* writing them always gives the stored row the flush would give.
Loaded(row) ==
    [id |-> row.id, status |-> row.status,
     error_message |-> row.error_message,
     content_items_count |-> row.content_items_count]

\* before the first commit only id and status are read
LoadedForCreate(row) ==
    [id |-> row.id, status |-> row.status, error_message |-> NULL,
     content_items_count |-> 0]

QueuedTask == [pc |-> "queued", loaded |-> LoadedForCreate(NoRow),
               selected |-> << >>]

InFlight == BagToSet(gen)

\* generate_briefing.delay(user_id, date): the task enters the queue
Enqueue(g) == g (+) SetToBag({QueuedTask})

CanEnqueue == BagCardinality(gen) < MaxTasks

Step(g, old, new) == (g (-) SetToBag({old})) (+) SetToBag({new})

Leave(g, old) == g (-) SetToBag({old})

\* the value a call returned (0 for None or an exception) and the source
\* line of the return statement or of the statement that raised
Returned(op, line, rid) == [op |-> op, line |-> line, rid |-> rid]

\* generate_briefing fell into its outer handler (lines 129-131), or the
\* commit of trigger_briefing_generation raised (line 126)
EndedInError(r) ==
    \/ r.op = "generate_briefing" /\ r.line = 131
    \/ r.op = "trigger_briefing_generation" /\ r.line = 126

AlreadyDelivered_Never(existing) == FALSE

\* existing_briefing and existing_briefing.status == DELIVERED
AlreadyDelivered(existing) ==
    existing.id # 0 /\ existing.status = DELIVERED

\* lines 32-51: the user check, the lookup of the briefing, the early returns
GenBegin(task) ==
    /\ task.pc = "queued"
    /\ LET existing == FindBriefing(briefings, TheUser, TheDate)
       IN  IF ~user_active
           THEN /\ gen' = Leave(gen, task)
                /\ returned' = Returned("generate_briefing", 35, 0)
           ELSE IF AlreadyDelivered(existing)
           THEN /\ gen' = Leave(gen, task)
                /\ returned' = Returned("generate_briefing", 51, existing.id)
           ELSE /\ gen' = Step(gen, task,
                     [task EXCEPT !.pc = "create",
                                  !.loaded = LoadedForCreate(existing)])
                /\ returned' = returned
    /\ UNCHANGED <<user_active, data_sources, content_items, classifications,
                   preferences, cutoff, briefings, briefing_content, next_id,
                   trig, sync, sync_logs, now, call, openai_client,
                   classifying>>

\* The commit of "create or update briefing record" of a session that loaded
\* `loaded`: the table after it, or the table unchanged when the INSERT
\* violates uq_briefing_user_date.
InsertViolates(loaded) ==
    loaded.id = 0 /\ BriefingKeyTaken(briefings, TheUser, TheDate)

RowsAfterGenerating(loaded) ==
    IF loaded.id # 0
    THEN ReplaceRow(briefings,
            OrmUpdate(RowById(briefings, loaded.id), loaded,
                      [status |-> GENERATING]))
    ELSE IF InsertViolates(loaded) THEN briefings
    ELSE briefings \cup {NewBriefing(next_id, TheUser, TheDate, GENERATING)}

IdAfterGenerating(loaded) == IF loaded.id # 0 THEN loaded.id ELSE next_id

NextIdAfterGenerating(loaded) ==
    IF loaded.id = 0 /\ ~InsertViolates(loaded) THEN next_id + 1 ELSE next_id

\* lines 53-66: set GENERATING (or add the row), commit, refresh.  An
\* IntegrityError of the commit reaches the outer handler (lines 129-131):
\* rollback, the task returns nothing.
GenCommitGenerating(task) ==
    /\ task.pc = "create"
    /\ briefings' = RowsAfterGenerating(task.loaded)
    /\ next_id' = NextIdAfterGenerating(task.loaded)
    /\ IF InsertViolates(task.loaded)
       THEN /\ gen' = Leave(gen, task)
            /\ returned' = Returned("generate_briefing", 131, 0)
       ELSE /\ gen' = Step(gen, task,
                 [task EXCEPT !.pc = "select",
                      !.loaded = Loaded(RowById(briefings',
                                     IdAfterGenerating(task.loaded)))])
            /\ returned' = returned
    /\ UNCHANGED <<user_active, data_sources, content_items, classifications,
                   preferences, cutoff, briefing_content, trig, sync,
                   sync_logs, now, call, openai_client, classifying>>

\* lines 79-80
NoContentFailure == [status |-> FAILED, error_message |-> NoContentMsg]

ExceptionFailure_StatusOnly(text) == [status |-> FAILED]

\* lines 121-122
ExceptionFailure(text) == [status |-> FAILED, error_message |-> text]

\* lines 74-82 and the handler of lines 119-127.  The call of line 76
\* raises, the handler records the failure and the task returns the id; the
\* branches for a selector that returns follow the source.
GenSelect(task) ==
    /\ task.pc = "select"
    /\ LET outcome == SelectContentCall(content_items, classifications,
                                        data_sources, preferences, cutoff,
                                        TheUser, 0)
           row == RowById(briefings, task.loaded.id)
       IN  /\ call' = SelectCalled(TheUser, 0, outcome)
           /\ IF outcome.raised
              THEN /\ briefings' = ReplaceRow(briefings,
                         OrmUpdate(row, task.loaded,
                                   ExceptionFailure(outcome.text)))
                   /\ gen' = Leave(gen, task)
                   /\ returned' = Returned("generate_briefing", 127,
                                           task.loaded.id)
              ELSE \E sel \in outcome.lists :
                      IF sel = << >>
                      THEN /\ briefings' = ReplaceRow(briefings,
                                 OrmUpdate(row, task.loaded,
                                           NoContentFailure))
                           /\ gen' = Leave(gen, task)
                           /\ returned' = Returned("generate_briefing", 82,
                                                   task.loaded.id)
                      ELSE /\ briefings' = briefings
                           /\ gen' = Step(gen, task,
                                 [task EXCEPT !.pc = "persist",
                                              !.selected = sel])
                           /\ returned' = returned
    /\ UNCHANGED <<user_active, data_sources, content_items, classifications,
                   preferences, cutoff, briefing_content, next_id, trig, sync,
                   sync_logs, now, openai_client, classifying>>

\* lines 98-103
ReadyResult(id, sel) ==
    [text_summary |-> sel, audio_file_url |-> id,
     audio_duration_seconds |-> BRIEFING_DURATION_SECONDS,
     content_items_count |-> Len(sel), generated_at |-> TRUE,
     status |-> READY]

\* lines 107-114
NewLinks(id, sel) ==
    {[briefing_id |-> id, content_id |-> sel[k], order |-> k,
      included_reason |->
          ClassificationOf(classifications, sel[k]).relevance_score]
     : k \in 1..Len(sel)}

LinksViolate(id, sel) ==
    \E k \in 1..Len(sel) : LinkKeyTaken(briefing_content, id, sel[k])

\* lines 85-127, for a task whose selector returned items: the audio is
\* rendered and stored, the result and the links are committed together;
\* when rendering or storing raises, or an INSERT violates
\* uq_briefing_content and the commit rolls back, the handler records the
\* failure.  No task reaches these lines (GenSelect), so this is no step of
\* Next.
GenPersist(task) ==
    /\ task.pc = "persist"
    /\ LET id == task.loaded.id
           sel == task.selected
           row == RowById(briefings, id)
       IN  \/ /\ briefings' = ReplaceRow(briefings,
                    OrmUpdate(row, task.loaded, ExceptionFailure(RenderErrMsg)))
              /\ briefing_content' = briefing_content
           \/ /\ LinksViolate(id, sel)
              /\ briefings' = ReplaceRow(briefings,
                    OrmUpdateExpired(row, ExceptionFailure(IntegrityErrMsg)))
              /\ briefing_content' = briefing_content
           \/ /\ ~LinksViolate(id, sel)
              /\ briefings' = ReplaceRow(briefings,
                    OrmUpdate(row, task.loaded, ReadyResult(id, sel)))
              /\ briefing_content' = briefing_content \cup NewLinks(id, sel)
    /\ gen' = Leave(gen, task)
    /\ returned' = Returned("generate_briefing", 127, task.loaded.id)
    /\ UNCHANGED <<user_active, data_sources, content_items, classifications,
                   preferences, cutoff, next_id, trig, sync, sync_logs, now,
                   call, openai_client, classifying>>

\* -------------------------------------- API: trigger_briefing_generation
IdleRequest == [pc |-> "idle", loaded |-> LoadedForCreate(NoRow)]

\* lines 99-112: lookup, early return for DELIVERED, the task is queued.
\* The request is authenticated as an active user.
TrigBegin ==
    /\ trig.pc = "idle"
    /\ user_active
    /\ LET existing == FindBriefing(briefings, TheUser, TheDate)
       IN  IF AlreadyDelivered(existing)
           THEN /\ trig' = trig
                /\ gen' = gen
                /\ returned' = Returned("trigger_briefing_generation", 109,
                                        existing.id)
           ELSE /\ CanEnqueue
                /\ gen' = Enqueue(gen)
                /\ trig' = [pc |-> "commit",
                            loaded |-> LoadedForCreate(existing)]
                /\ returned' = returned
    /\ UNCHANGED <<user_active, data_sources, content_items, classifications,
                   preferences, cutoff, briefings, briefing_content, next_id,
                   sync, sync_logs, now, call, openai_client, classifying>>

\* lines 114-129: set GENERATING (or add the row), commit, refresh, return.
\* An IntegrityError of the commit is not handled: the request fails.
TrigCommit ==
    /\ trig.pc = "commit"
    /\ briefings' = RowsAfterGenerating(trig.loaded)
    /\ next_id' = NextIdAfterGenerating(trig.loaded)
    /\ returned' = IF InsertViolates(trig.loaded)
                   THEN Returned("trigger_briefing_generation", 126, 0)
                   ELSE Returned("trigger_briefing_generation", 129,
                                 IdAfterGenerating(trig.loaded))
    /\ trig' = IdleRequest
    /\ UNCHANGED <<user_active, data_sources, content_items, classifications,
                   preferences, cutoff, briefing_content, gen, sync,
                   sync_logs, now, call, openai_client, classifying>>

\* ------------------------------------------ API: mark_briefing_delivered
\* lines 150-151
DeliveredResult == [status |-> DELIVERED, delivered_at |-> TRUE]

\* lines 139-156, for the id of a stored briefing of the user.  The lookup
\* and the commit are one step: the UPDATE stores DELIVERED whatever the
\* status was.
MarkDelivered ==
    /\ user_active
    /\ \E b \in briefings :
          /\ b.user_id = TheUser
          /\ briefings' = ReplaceRow(briefings,
                OrmUpdate(b, Loaded(b), DeliveredResult))
          /\ returned' = Returned("mark_briefing_delivered", 156, b.id)
    /\ UNCHANGED <<user_active, data_sources, content_items, classifications,
                   preferences, cutoff, briefing_content, next_id, gen, trig,
                   sync, sync_logs, now, call, openai_client, classifying>>

\* ------------------------------------------------ generate_daily_briefings
\* seconds between the user's generation time and the sweep's current time
TimeDiffs ==
    {0 - 60, 0, GENERATION_WINDOW_SECONDS, GENERATION_WINDOW_SECONDS + 60}

\* lines 175-176
InGenerationWindow_NoEnd(time_diff) == 0 <= time_diff

InGenerationWindow(time_diff) ==
    0 <= time_diff /\ time_diff <= GENERATION_WINDOW_SECONDS

\* line 183, inside the test of line 176: the user's task is queued
SweepQueues(time_diff, existing) ==
    InGenerationWindow(time_diff) /\ ~AlreadyDelivered(existing)

\* lines 156-186 for the one user: active users only, inside the window,
\* no DELIVERED briefing for today
Sweep ==
    /\ user_active
    /\ CanEnqueue
    /\ \E time_diff \in TimeDiffs :
          LET existing == FindBriefing(briefings, TheUser, TheDate)
          IN  IF SweepQueues(time_diff, existing)
              THEN gen' = Enqueue(gen)
              ELSE gen' = gen
    /\ UNCHANGED <<user_active, data_sources, content_items, classifications,
                   preferences, cutoff, briefings, briefing_content, next_id,
                   trig, returned, sync, sync_logs, now, call, openai_client,
                   classifying>>

\* --------------------------------------------------------- the environment
\* DELETE /account: the soft delete
DeleteAccount ==
    /\ user_active
    /\ user_active' = FALSE
    /\ UNCHANGED <<data_sources, content_items, classifications, preferences,
                   cutoff, briefings, briefing_content, next_id, gen, trig,
                   returned, sync, sync_logs, now, call, openai_client,
                   classifying>>

\* The scores the rule-based classifier computes are a function of the
\* item's text; in tenths.  Items 1 and 2 tie on relevance and item 2 is the
\* more important; every third item is below MIN_RELEVANCE_SCORE.
RelevanceOf(i) == IF i % 3 = 0 THEN 2 ELSE 9
ImportanceOf(i) == IF i % 2 = 0 THEN 7 ELSE 5

\* classify_pending_content on one unclassified item of the last 24 hours
Classify(i) ==
    /\ \E x \in content_items : x.id = i /\ x.published_at >= cutoff
    /\ ~\E c \in classifications : c.content_id = i
    /\ classifications' = classifications \cup
          {[content_id |-> i, relevance_score |-> RelevanceOf(i),
            importance_score |-> ImportanceOf(i)]}
    /\ UNCHANGED <<user_active, data_sources, content_items, preferences,
                   cutoff, briefings, briefing_content, next_id, gen, trig,
                   returned, sync, sync_logs, now, call, openai_client,
                   classifying>>

\* time passes: the 24-hour window moves past the oldest item inside it
Tick ==
    /\ \E x \in content_items : x.published_at >= cutoff
    /\ cutoff' = cutoff + 1
    /\ UNCHANGED <<user_active, data_sources, content_items, classifications,
                   preferences, briefings, briefing_content, next_id, gen,
                   trig, returned, sync, sync_logs, now, call, openai_client,
                   classifying>>

\* ------------------------------------------------------------ specification
\* metadata_keys is the set of keys of item_metadata
NewContentItem(id, source_id, external_id, published_at, text) ==
    [id |-> id, source_id |-> source_id, external_id |-> external_id,
     published_at |-> published_at, text_content |-> text,
     metadata_keys |-> {}]

\* a user_preferences row
NewPreferences(user_id, min_relevance_score, max_items_per_briefing) ==
    [user_id |-> user_id, min_relevance_score |-> min_relevance_score,
     max_items_per_briefing |-> max_items_per_briefing]

\* no service function has been called yet
NoCall == [fn |-> "none"]

\* one data source of the user, `n` items synced from it, none classified,
\* no briefing, the user_preferences table holding `prefs`
InitFrom(n, prefs) ==
    /\ user_active = TRUE
    /\ data_sources = {[id |-> TheSource, user_id |-> TheUser,
                        is_active |-> TRUE, source_type |-> "twitter",
                        last_sync_at |-> 0]}
    /\ content_items = {NewContentItem(i, TheSource, i, i, 0) : i \in 1..n}
    /\ classifications = {}
    /\ preferences = prefs
    /\ cutoff = 1
    /\ briefings = {}
    /\ briefing_content = {}
    /\ next_id = 1
    /\ gen = EmptyBag
    /\ trig = IdleRequest
    /\ returned = Returned("none", 0, 0)
    /\ sync = EmptyBag
    /\ sync_logs = {}
    /\ now = 1
    /\ call = NoCall
    /\ openai_client = FALSE
    /\ classifying = EmptyBag

\* a user who has saved no preferences
InitWith(n) == InitFrom(n, {})

Init == InitWith(MaxItems)

Next ==
    \/ \E task \in InFlight : GenBegin(task)
    \/ \E task \in InFlight : GenCommitGenerating(task)
    \/ \E task \in InFlight : GenSelect(task)
    \/ TrigBegin
    \/ TrigCommit
    \/ MarkDelivered
    \/ Sweep
    \/ DeleteAccount
    \/ \E x \in content_items : Classify(x.id)
    \/ Tick

Spec == Init /\ [][Next]_vars

\* a worker carries every queued generate_briefing task through to its
\* return
GenFairSpec ==
    /\ Spec
    /\ WF_vars(\E task \in InFlight : GenBegin(task))
    /\ WF_vars(\E task \in InFlight : GenCommitGenerating(task))
    /\ WF_vars(\E task \in InFlight : GenSelect(task))

\* the same program for a user who has saved preferences: the default
\* relevance threshold and one item per briefing
PrefInit == InitFrom(MaxItems, {NewPreferences(TheUser, 3, 1)})

PrefSpec == PrefInit /\ [][Next]_vars

\* ====================================================== reconciliation runs
SyncRunning == "running"
SyncSuccess == "success"
SyncFailed == "failed"

CredentialsErrMsg == "No credentials found"
FetchErrMsg == "provider error"
NormalizeErrMsg == "item normalisation error"

SourceTypes == {"twitter", "facebook", "instagram", "telegram", "rss", "email"}

\* the branches of sync_data_source's dispatch on source_type
Supported(source_type) ==
    source_type \in {"twitter", "rss", "telegram", "facebook", "instagram"}

Overwrites_Telegram(source_type) == Supported(source_type)

\* every adapter but Telegram's overwrites an existing item with the fetched
\* values; Telegram's only counts it
Overwrites(source_type) ==
    source_type \in {"twitter", "rss", "facebook", "instagram"}

\* what a provider can return: a sequence of external ids, the same one
\* possibly more than once (the batches that name one id twice are among
\* them whatever MaxBatch is); the text that comes with an item is the
\* provider's version of it at the time of the run, TextAt(start_time)
ExternalIds == {1, 2}
Batches ==
    UNION {[1..k -> ExternalIds] : k \in 0..MaxBatch}
    \cup {<<e, e>> : e \in ExternalIds}
TextAt(time) == time

\* an update of Telegram's getUpdates that carries no "message" (an edited
\* message, a channel post, a callback query)
NoMessage == 0

\* what the provider of a source type can return: Telegram's updates may
\* come without a message
ProviderBatches(source_type) ==
    IF source_type = "telegram"
    THEN Batches \cup {<<NoMessage>>, <<NoMessage, 1>>}
    ELSE Batches

SourceRow == CHOOSE s \in data_sources : s.id = TheSource

\* an id under which no DataSource is stored
MissingSource == "source-2"

SourceIds == {TheSource, MissingSource}

\* db.query(DataSource).filter(DataSource.id == source_id).first()
SourceFound(source_id) == \E s \in data_sources : s.id = source_id

SkipsSource_Missing(source_id) == ~SourceFound(source_id)

\* if not source or not source.is_active
SkipsSource(source_id) ==
    ~SourceFound(source_id) \/ ~SourceRow.is_active

\* logger.warning(f"Source {source_id} not found or inactive")
Warned(source_id) ==
    [fn |-> "sync_data_source", warning |-> "not found or inactive",
     source_id |-> source_id]

\* timedelta(hours=24) of the adapters; the reconciliation clock counts hours
SYNC_LOOKBACK_HOURS == 24

\* the lower bound an adapter hands to its provider, as a set of at most one
\* time: Twitter's start_time and Facebook's since are last_sync_at or, when
\* that is None, utcnow() - 24h; Telegram's offset is last_sync_at or None;
\* Instagram and RSS pass none.  last_sync_at = 0 stands for NULL.
FetchSince(source_type, last_sync_at, utcnow) ==
    CASE source_type \in {"twitter", "facebook"} ->
             {IF last_sync_at # 0 THEN last_sync_at
              ELSE utcnow - SYNC_LOOKBACK_HOURS}
      [] source_type = "telegram" ->
             IF last_sync_at # 0 THEN {last_sync_at} ELSE {}
      [] OTHER -> {}

QueuedSync ==
    [source_id |-> TheSource,
     pc |-> "queued", start_time |-> 0, since |-> {}, raised_in |-> "none",
     batch |-> << >>, pos |-> 1,
     pending_new |-> << >>, pending_upd |-> {}, source_dirty |-> FALSE,
     items_fetched |-> 0, items_new |-> 0, items_updated |-> 0,
     status |-> SyncRunning, error_message |-> NULL]

SyncInFlight == BagToSet(sync)

\* sync_data_source.delay(source_id), from sync_all_sources or by hand
QueueSync ==
    /\ BagCardinality(sync) + Cardinality(sync_logs) < MaxSyncs
    /\ \E source_id \in SourceIds :
          sync' = sync (+)
                     SetToBag({[QueuedSync EXCEPT !.source_id = source_id]})
    /\ UNCHANGED <<user_active, data_sources, content_items, classifications,
                   preferences, cutoff, briefings, briefing_content, next_id,
                   gen, trig, returned, sync_logs, now, call, openai_client,
                   classifying>>

\* the except branch of sync_data_source: the counters keep their zeros
SyncRaised(task, text) ==
    [task EXCEPT !.pc = "log", !.status = SyncFailed, !.error_message = text,
                 !.items_fetched = 0, !.items_new = 0, !.items_updated = 0]

\* the provider's client, or the parsing of what it answered, raises.
\* RSSParser.parse_feed catches every exception of the fetch and of the
\* normalisation of the entries, logs it and returns an empty list, and
\* the adapter goes on with that; the other adapters let it through to the
\* handler of sync_data_source.
FetchRaised(begun) ==
    IF SourceRow.source_type = "rss"
    THEN [begun EXCEPT !.pc = "loop", !.raised_in = "fetch",
                       !.batch = << >>, !.items_fetched = 0]
    ELSE SyncRaised([begun EXCEPT !.raised_in = "fetch"], FetchErrMsg)

\* what source.last_sync_at reads in the session of a run once line 36 has
\* assigned the run's start_time to it: the adapter is handed the same
\* object
SessionLastSync(start_time) == start_time

\* sync_data_source up to the adapter's fetch
SyncBegin(task) ==
    /\ task.pc = "queued"
    /\ IF SkipsSource(task.source_id)
       THEN /\ sync' = Leave(sync, task)
            /\ now' = now
            /\ call' = Warned(task.source_id)
       ELSE /\ now' = now + 1
            /\ call' = call
            /\ LET begun == [task EXCEPT
                                !.start_time = now,
                                !.source_dirty = TRUE,
                                !.since = FetchSince(SourceRow.source_type,
                                                     SessionLastSync(now),
                                                     now)]
               IN  IF ~Supported(SourceRow.source_type)
                   THEN sync' = Step(sync, task,
                                     [begun EXCEPT !.pc = "log",
                                                   !.status = SyncSuccess])
                   ELSE \/ sync' = Step(sync, task,
                              SyncRaised(
                                  [begun EXCEPT !.raised_in = "credentials"],
                                  CredentialsErrMsg))
                        \/ sync' = Step(sync, task, FetchRaised(begun))
                        \/ \E batch \in
                                  ProviderBatches(SourceRow.source_type) :
                              sync' = Step(sync, task,
                                  [begun EXCEPT !.pc = "loop",
                                                !.batch = batch,
                                                !.items_fetched = Len(batch)])
    /\ UNCHANGED <<user_active, data_sources, content_items, classifications,
                   preferences, cutoff, briefings, briefing_content, next_id,
                   gen, trig, returned, sync_logs, openai_client,
                   classifying>>

\* existing_item.text_content = ...: the session keeps the value it loaded
AssignText(pending_upd, row, text) ==
    IF \E u \in pending_upd : u.id = row.id
    THEN {IF u.id = row.id THEN [u EXCEPT !.text = text] ELSE u :
             u \in pending_upd}
    ELSE pending_upd \cup
            {[id |-> row.id, loaded |-> row.text_content, text |-> text]}

\* one pass of the adapter's loop: look the item up, update it or add it;
\* Telegram's loop goes on to the next update when this one has no message
SyncItem(task) ==
    /\ task.pc = "loop"
    /\ task.pos <= Len(task.batch)
    /\ LET item == task.batch[task.pos]
           found == {r \in content_items :
                        /\ r.source_id = TheSource
                        /\ r.external_id = item}
           next == [task EXCEPT !.pos = task.pos + 1]
       IN  IF SourceRow.source_type = "telegram" /\ item = NoMessage
           THEN sync' = Step(sync, task, next)
           ELSE IF found # {}
           THEN LET existing_item == CHOOSE r \in found : TRUE
                IN  sync' = Step(sync, task,
                       [next EXCEPT
                          !.items_updated = task.items_updated + 1,
                          !.pending_upd =
                             IF Overwrites(SourceRow.source_type)
                             THEN AssignText(task.pending_upd, existing_item,
                                             TextAt(task.start_time))
                             ELSE task.pending_upd])
           ELSE \/ sync' = Step(sync, task,
                       [next EXCEPT
                          !.items_new = task.items_new + 1,
                          !.pending_new = Append(task.pending_new,
                             [external_id |-> item,
                              text |-> TextAt(task.start_time)])])
                \/ /\ SourceRow.source_type # "rss"
                   /\ sync' = Step(sync, task,
                         SyncRaised([task EXCEPT !.raised_in = "normalize"],
                                    NormalizeErrMsg))
    /\ UNCHANGED <<user_active, data_sources, content_items, classifications,
                   preferences, cutoff, briefings, briefing_content, next_id,
                   gen, trig, returned, sync_logs, now, call, openai_client,
                   classifying>>

\* the keys of the item_metadata an adapter gives to a new ContentItem
CreatedMetadataKeys(source_type) ==
    CASE source_type = "twitter" -> {"public_metrics", "lang"}
      [] source_type = "facebook" -> {"likes", "comments", "shares"}
      [] source_type = "instagram" ->
             {"media_type", "media_url", "thumbnail_url"}
      [] source_type = "telegram" ->
             {"chat_id", "chat_type", "message_type"}
      [] source_type = "rss" -> {"feed_title", "feed_link", "tags"}
      [] OTHER -> {}

\* the keys of the item_metadata an adapter assigns to an existing item
UpdatedMetadataKeys(source_type) ==
    CASE source_type = "twitter" -> {"public_metrics", "lang"}
      [] source_type = "facebook" -> {"likes", "comments", "shares"}
      [] source_type = "instagram" ->
             {"media_type", "media_url", "permalink"}
      [] source_type = "rss" -> {"feed_title", "feed_link", "tags"}
      [] OTHER -> {}

\* the INSERTs of a flush, in the order of db.add; the first one that hits
\* uq_content_source_external fails the flush
RECURSIVE FlushInserts(_, _, _)
FlushInserts(rows, pending, id) ==
    IF pending = << >>
    THEN [ok |-> TRUE, rows |-> rows]
    ELSE IF ContentKeyTaken(rows, TheSource, Head(pending).external_id)
         THEN [ok |-> FALSE, rows |-> rows]
         ELSE FlushInserts(
                  rows \cup {[NewContentItem(id, TheSource,
                                             Head(pending).external_id,
                                             cutoff, Head(pending).text)
                                 EXCEPT !.metadata_keys =
                                     CreatedMetadataKeys(
                                         SourceRow.source_type)]},
                  Tail(pending), id + 1)

\* the UPDATEs of a flush: the text where the assigned one differs from
\* the loaded one, and the item_metadata the adapter assigned
FlushUpdates(rows, pending_upd) ==
    {IF \E u \in pending_upd : u.id = r.id
     THEN LET u == CHOOSE v \in pending_upd : v.id = r.id
          IN  [r EXCEPT !.text_content =
                           IF u.text # u.loaded THEN u.text ELSE @,
                        !.metadata_keys =
                           UpdatedMetadataKeys(SourceRow.source_type)]
     ELSE r : r \in rows}

Flush(task) ==
    FlushInserts(FlushUpdates(content_items, task.pending_upd),
                 task.pending_new, next_id)

SourcesAfterFlush(task) ==
    IF task.source_dirty
    THEN {IF s.id = TheSource
          THEN [s EXCEPT !.last_sync_at = task.start_time] ELSE s :
             s \in data_sources}
    ELSE data_sources

Flushed(task) ==
    [task EXCEPT !.pending_new = << >>, !.pending_upd = {},
                 !.source_dirty = FALSE]

\* the adapter's db.commit() after its loop
SyncCommit(task) ==
    /\ task.pc = "loop"
    /\ task.pos > Len(task.batch)
    /\ LET flush == Flush(task)
       IN  IF flush.ok
           THEN /\ content_items' = flush.rows
                /\ next_id' = next_id + Len(task.pending_new)
                /\ data_sources' = SourcesAfterFlush(task)
                /\ sync' = Step(sync, task,
                               [Flushed(task) EXCEPT !.pc = "log",
                                                     !.status = SyncSuccess])
           ELSE /\ sync' = Step(sync, task,
                               SyncRaised(Flushed(task), IntegrityErrMsg))
                /\ UNCHANGED <<content_items, next_id, data_sources>>
    /\ UNCHANGED <<user_active, classifications, preferences, cutoff,
                   briefings, briefing_content, gen, trig, returned,
                   sync_logs, now, call, openai_client, classifying>>

NewSyncLog(task) ==
    [source_id |-> TheSource, status |-> task.status,
     items_fetched |-> task.items_fetched, items_new |-> task.items_new,
     items_updated |-> task.items_updated,
     error_message |-> task.error_message, started_at |-> task.start_time]

\* db.add(sync_log); db.commit(): the flush also carries what the session
\* still holds; if it fails, the outer except rolls back and no log is kept
SyncLogCommit(task) ==
    /\ task.pc = "log"
    /\ LET flush == Flush(task)
       IN  IF flush.ok
           THEN /\ content_items' = flush.rows
                /\ data_sources' = SourcesAfterFlush(task)
                /\ sync_logs' = sync_logs \cup {NewSyncLog(task)}
                /\ next_id' = next_id + Len(task.pending_new)
           ELSE UNCHANGED <<content_items, data_sources, sync_logs, next_id>>
    /\ sync' = Leave(sync, task)
    /\ UNCHANGED <<user_active, classifications, preferences, cutoff,
                   briefings, briefing_content, gen, trig, returned, now,
                   call, openai_client, classifying>>

\* one connected source of any type and nothing synced yet
SyncInit ==
    /\ user_active = TRUE
    /\ \E t \in SourceTypes, a \in BOOLEAN :
          data_sources = {[id |-> TheSource, user_id |-> TheUser,
                           is_active |-> a, source_type |-> t,
                           last_sync_at |-> 0]}
    /\ content_items = {}
    /\ classifications = {}
    /\ preferences = {}
    /\ cutoff = 1
    /\ briefings = {}
    /\ briefing_content = {}
    /\ next_id = 1
    /\ gen = EmptyBag
    /\ trig = IdleRequest
    /\ returned = Returned("none", 0, 0)
    /\ sync = EmptyBag
    /\ sync_logs = {}
    /\ now = 1
    /\ call = NoCall
    /\ openai_client = FALSE
    /\ classifying = EmptyBag

SyncNext ==
    \/ QueueSync
    \/ \E task \in SyncInFlight : SyncBegin(task)
    \/ \E task \in SyncInFlight : SyncItem(task)
    \/ \E task \in SyncInFlight : SyncCommit(task)
    \/ \E task \in SyncInFlight : SyncLogCommit(task)

SyncSpec == SyncInit /\ [][SyncNext]_vars

\* ================================================ the selector, as a function
\* the scores a stored classification can carry, in tenths: below the
\* default threshold, between it and a user's stricter one, above both
StoredRelevance == {2, 5, 9}
StoredImportance == {5, 7}

\* every database the selector can be called on: the source active or not,
\* each item inside or outside the 24 hours, classified or not, the user
\* with or without a preferences row
SelectInit ==
    /\ user_active = TRUE
    /\ \E a \in BOOLEAN :
          data_sources = {[id |-> TheSource, user_id |-> TheUser,
                           is_active |-> a, source_type |-> "twitter",
                           last_sync_at |-> 0]}
    /\ \E pub \in [1..MaxItems -> {0, 1}] :
          content_items = {NewContentItem(i, TheSource, i, pub[i], 0) :
                              i \in 1..MaxItems}
    /\ \E S \in SUBSET (1..MaxItems) :
          \E rel \in [1..MaxItems -> StoredRelevance] :
              \E imp \in [1..MaxItems -> StoredImportance] :
                  classifications =
                      {[content_id |-> i, relevance_score |-> rel[i],
                        importance_score |-> imp[i]] : i \in S}
    /\ preferences \in {{}, {NewPreferences(TheUser, 9, 1)}}
    /\ cutoff = 1
    /\ briefings = {}
    /\ briefing_content = {}
    /\ next_id = MaxItems + 1
    /\ gen = EmptyBag
    /\ trig = IdleRequest
    /\ returned = Returned("none", 0, 0)
    /\ sync = EmptyBag
    /\ sync_logs = {}
    /\ now = 1
    /\ call = NoCall
    /\ openai_client = FALSE
    /\ classifying = EmptyBag

\* generator.select_content_for_briefing(db, user, max_items)
SelectApply(max_items) ==
    /\ call' = SelectCalled(TheUser, max_items,
                            SelectContentCall(content_items, classifications,
                                              data_sources, preferences,
                                              cutoff, TheUser, max_items))
    /\ UNCHANGED <<user_active, data_sources, content_items, classifications,
                   preferences, cutoff, briefings, briefing_content, next_id,
                   gen, trig, returned, sync, sync_logs, now, openai_client,
                   classifying>>

SelectNext == \E max_items \in 0..(MaxItems + 1) : SelectApply(max_items)

SelectSpec == SelectInit /\ [][SelectNext]_vars

\* ============================================================= classifiers
\* Scores are kept exactly, in units of 1/ScoreOne: every quotient by the
\* length of a keyword list, the baseline 0.1 and the halves of line 65 are
\* whole numbers of that unit.
ScoreOne == 55440
Tenths(n) == n * (ScoreOne \div 10)

Min(a, b) == IF a <= b THEN a ELSE b
Max(a, b) == IF a >= b THEN a ELSE b

\* class CategoryType
CategoryType == {"personal", "work", "hobby", "news", "important", "other"}

\* the lengths of WORK_KEYWORDS .. IMPORTANT_KEYWORDS
KeywordCount ==
    [work |-> 11, personal |-> 8, hobby |-> 9, news |-> 8, important |-> 7]

\* dict.get(key, default)
Get(dict, key, default) ==
    IF key \in DOMAIN dict THEN dict[key] ELSE default

EmptyDict == [k \in {} |-> 0]

\* _calculate_score, from the number of the list's keywords in the text
CalculateScore(matches, list) ==
    Min((matches * 2 * ScoreOne) \div KeywordCount[list], ScoreOne)

\* the dict of lines 52-59, in its insertion order
ScoreKeys == <<"work", "personal", "hobby", "news", "important", "other">>

CategoryScores(content) ==
    [c \in CategoryType |->
        IF c = "other" THEN Tenths(1)
        ELSE CalculateScore(content.matches[c], c)]

\* max(scores, key=scores.get): the first key that holds the largest value
FirstMax(scores) ==
    LET k == CHOOSE k \in 1..Len(ScoreKeys) :
                 /\ \A j \in 1..Len(ScoreKeys) :
                       scores[ScoreKeys[j]] <= scores[ScoreKeys[k]]
                 /\ \A j \in 1..(k - 1) :
                       scores[ScoreKeys[j]] < scores[ScoreKeys[k]]
    IN  ScoreKeys[k]

\* _calculate_social_score
CalculateSocialScore(metadata) ==
    LET metrics == Get(metadata, "public_metrics", EmptyDict)
        total_engagement == Get(metrics, "like_count", 0)
                            + Get(metrics, "retweet_count", 0) * 2
                            + Get(metrics, "reply_count", 0)
    IN  Min((total_engagement * ScoreOne) \div 1000, ScoreOne)

\* _calculate_personal_score
CalculatePersonalScore == Tenths(3)

\* what a classify call hands back: a classification, or the exception that
\* left it
Classified(category, relevance, importance, social, personal) ==
    [raised |-> FALSE, category |-> category, relevance_score |-> relevance,
     importance_score |-> importance, social_score |-> social,
     personal_score |-> personal]

Propagated == [raised |-> TRUE]

\* RuleBasedClassifier.classify; item_metadata None and {} are both falsy
\* on line 68 and are the one EmptyDict here
RuleBasedClassify(content) ==
    LET scores == CategoryScores(content)
        relevance_score == Max(Max(scores.work, scores.personal),
                               Max(scores.hobby, scores.news))
        importance_score == scores.important \div 2 + relevance_score \div 2
    IN  Classified(FirstMax(scores),
                   Min(relevance_score, ScoreOne),
                   Min(importance_score, ScoreOne),
                   CalculateSocialScore(content.item_metadata),
                   CalculatePersonalScore)

\* the values of a JSON object the model reads: a number, a string, null;
\* Absent stands for a key the object does not have
JsonNumber(n) == [type |-> "number", value |-> n, text |-> ""]
JsonString(s) == [type |-> "string", value |-> 0, text |-> s]
JsonNull == [type |-> "null", value |-> 0, text |-> ""]
Absent == [type |-> "absent", value |-> 0, text |-> ""]

\* result.get(key, default), the default given as a JSON value
JsonGet(body, key, default) ==
    IF body[key] = Absent THEN default ELSE body[key]

\* float(v) raises TypeError on null and ValueError on a string that is no
\* number
FloatRaises(v) == v.type # "number"

\* CategoryType(v) raises ValueError on anything but the six values
CategoryRaises(v) == ~(v.type = "string" /\ v.text \in CategoryType)

\* lines 149-170: the request, json.loads and the dict of the result
AIAttempt(response) ==
    IF response.kind # "object"
    THEN Propagated
    ELSE LET category == JsonGet(response.body, "category",
                                 JsonString("other"))
             relevance == JsonGet(response.body, "relevance_score",
                                  JsonNumber(Tenths(5)))
             importance == JsonGet(response.body, "importance_score",
                                   JsonNumber(Tenths(5)))
             social == JsonGet(response.body, "social_score",
                               JsonNumber(Tenths(3)))
             personal == JsonGet(response.body, "personal_score",
                                 JsonNumber(Tenths(3)))
         IN  IF \/ CategoryRaises(category)
                \/ FloatRaises(relevance) \/ FloatRaises(importance)
                \/ FloatRaises(social) \/ FloatRaises(personal)
             THEN Propagated
             ELSE Classified(category.text, relevance.value,
                             importance.value, social.value, personal.value)

\* lines 171-174, with the handler left out: the exception leaves classify
RuleFallback_Propagates(content) == Propagated

\* lines 171-174
RuleFallback(content) == RuleBasedClassify(content)

\* AIClassifier.classify
AIClassify(content, response) ==
    LET attempt == AIAttempt(response)
    IN  IF attempt.raised THEN RuleFallback(content) ELSE attempt

\* ------------------------------------------- the classifiers, as functions
\* what the classifiers read of an item: how many keywords of each list its
\* title and text contain, and its metadata
MatchCounts ==
    {[work |-> w, personal |-> p, hobby |-> h, news |-> n, important |-> i] :
        w \in {0, 1, KeywordCount.work}, p \in {0, KeywordCount.personal},
        h \in {0, KeywordCount.hobby}, n \in {0, KeywordCount.news},
        i \in {0, KeywordCount.important}}

\* nothing stored, an RSS entry's metadata, a tweet with no engagement yet,
\* a tweet with some, a tweet far past 1000
Metadata ==
    {EmptyDict,
     [lang |-> "ru"],
     [public_metrics |-> EmptyDict, lang |-> "ru"],
     [public_metrics |-> [like_count |-> 300, retweet_count |-> 100,
                          reply_count |-> 50], lang |-> "ru"],
     [public_metrics |-> [like_count |-> 5000], lang |-> "ru"]}

Contents == [matches : MatchCounts, item_metadata : Metadata]

\* what the model can answer for a score: nothing, null, a word, a number
\* below, inside or above the asked range
JsonScores ==
    {Absent, JsonNull, JsonString("high"),
     JsonNumber(Tenths(0 - 2)), JsonNumber(Tenths(8)), JsonNumber(Tenths(15))}

JsonCategories ==
    {Absent, JsonNull, JsonString("work"), JsonString("sports")}

\* the API call raises; the message is no JSON; the JSON is no object; the
\* JSON is an object
AIResponses ==
    {[kind |-> k, body |-> EmptyDict] : k \in {"raises", "text", "array"}}
    \cup
    {[kind |-> "object",
      body |-> [category |-> c, relevance_score |-> r,
                importance_score |-> i, social_score |-> s,
                personal_score |-> s]] :
        c \in JsonCategories, r \in JsonScores, i \in JsonScores,
        s \in {Absent, JsonNumber(Tenths(8))}}

ClassifierInit ==
    /\ user_active = TRUE
    /\ data_sources = {}
    /\ content_items = {}
    /\ classifications = {}
    /\ preferences = {}
    /\ cutoff = 1
    /\ briefings = {}
    /\ briefing_content = {}
    /\ next_id = 1
    /\ gen = EmptyBag
    /\ trig = IdleRequest
    /\ returned = Returned("none", 0, 0)
    /\ sync = EmptyBag
    /\ sync_logs = {}
    /\ now = 1
    /\ call = NoCall
    /\ openai_client = FALSE
    /\ classifying = EmptyBag

\* RuleBasedClassifier().classify(content)
RuleApply(content) ==
    /\ openai_client = FALSE
    /\ classifying = EmptyBag
    /\ call' = [fn |-> "RuleBasedClassifier.classify", content |-> content,
                response |-> [kind |-> "none", body |-> EmptyDict],
                outcome |-> RuleBasedClassify(content)]
    /\ UNCHANGED <<user_active, data_sources, content_items, classifications,
                   preferences, cutoff, briefings, briefing_content, next_id,
                   gen, trig, returned, sync, sync_logs, now, openai_client,
                   classifying>>

\* AIClassifier(client).classify(content), the client answering `response`
AIApply(content, response) ==
    /\ openai_client = FALSE
    /\ classifying = EmptyBag
    /\ call' = [fn |-> "AIClassifier.classify", content |-> content,
                response |-> response,
                outcome |-> AIClassify(content, response)]
    /\ UNCHANGED <<user_active, data_sources, content_items, classifications,
                   preferences, cutoff, briefings, briefing_content, next_id,
                   gen, trig, returned, sync, sync_logs, now, openai_client,
                   classifying>>

\* one call in a behaviour: a call depends on nothing an earlier one left
ClassifierNext ==
    \/ /\ call = NoCall
       /\ \E content \in Contents : RuleApply(content)
    \/ /\ call = NoCall
       /\ \E content \in Contents, response \in AIResponses :
             AIApply(content, response)

ClassifierSpec == ClassifierInit /\ [][ClassifierNext]_vars

\* ======================================================== classification runs
\* .limit(100) of the query
CLASSIFY_BATCH_LIMIT == 100

\* what the classifiers read of a stored item, a function of its text and
\* metadata: every third item holds one work keyword, the others five, every
\* second item two keywords of importance; no engagement yet
ContentOf(x) ==
    [matches |-> [work |-> IF x.id % 3 = 0 THEN 1 ELSE 5,
                  personal |-> 0, hobby |-> 0, news |-> 0,
                  important |-> IF x.id % 2 = 0 THEN 2 ELSE 0],
     item_metadata |-> [public_metrics |-> EmptyDict, lang |-> "ru"]]

\* the answers of the collaborator the runs are checked on: the request
\* raises, a well-formed answer inside the asked range, one above it
RunResponses ==
    {[kind |-> "raises", body |-> EmptyDict]}
    \cup
    {[kind |-> "object",
      body |-> [category |-> JsonString("work"),
                relevance_score |-> JsonNumber(Tenths(r)),
                importance_score |-> JsonNumber(Tenths(8)),
                social_score |-> Absent, personal_score |-> Absent]] :
        r \in {8, 15}}

QueuedClassify == [pc |-> "queued", unclassified |-> {}]

ClassifyInFlight == BagToSet(classifying)

\* classify_pending_content.delay(), by the beat schedule or by hand
QueueClassify ==
    /\ BagCardinality(classifying) < MaxTasks
    /\ classifying' = classifying (+) SetToBag({QueuedClassify})
    /\ UNCHANGED <<user_active, data_sources, content_items, classifications,
                   preferences, cutoff, briefings, briefing_content, next_id,
                   gen, trig, returned, sync, sync_logs, now, call,
                   openai_client>>

\* the rows of the query of lines 202-205, before its limit
Unclassified ==
    {x.id : x \in {y \in content_items :
        /\ ~\E c \in classifications : c.content_id = y.id
        /\ y.published_at >= cutoff}}

\* every result the limited query may give: it has no ORDER BY
LimitedTo(rows, limit) ==
    {S \in SUBSET rows : Cardinality(S) = Min(Cardinality(rows), limit)}

\* lines 195-212
ClassifyBegin(task) ==
    /\ task.pc = "queued"
    /\ \E loaded \in LimitedTo(Unclassified, CLASSIFY_BATCH_LIMIT) :
          classifying' = Step(classifying, task,
                              [task EXCEPT !.pc = "loop",
                                           !.unclassified = loaded])
    /\ UNCHANGED <<user_active, data_sources, content_items, classifications,
                   preferences, cutoff, briefings, briefing_content, next_id,
                   gen, trig, returned, sync, sync_logs, now, call,
                   openai_client>>

\* lines 225-234; the row's id is a fresh uuid4
NewClassification(id, content_id, data, model_version) ==
    [id |-> id, content_id |-> content_id, category |-> data.category,
     relevance_score |-> data.relevance_score,
     importance_score |-> data.importance_score,
     social_score |-> data.social_score,
     personal_score |-> data.personal_score,
     model_version |-> model_version]

\* lines 216-222 and 233
ClassificationData(x, response) ==
    IF openai_client THEN AIClassify(ContentOf(x), response)
    ELSE RuleBasedClassify(ContentOf(x))

ModelVersion == IF openai_client THEN "gpt-4-v1" ELSE "rule-based-v1"

\* content_classifications.content_id is unique, left out
ClassificationKeyTaken_NoConstraint(rows, content_id) == FALSE

\* content_classifications.content_id is unique
ClassificationKeyTaken(rows, content_id) ==
    \E c \in rows : c.content_id = content_id

\* lines 214-244: the loop adds one row per loaded item to the session and
\* the one commit of line 237 inserts them all or, when a row's content_id
\* has been taken meanwhile, none of them
ClassifyCommit(task) ==
    /\ task.pc = "loop"
    /\ \E answers \in [task.unclassified ->
                          IF openai_client THEN RunResponses
                          ELSE {[kind |-> "none", body |-> EmptyDict]}] :
          LET added ==
                  {NewClassification(
                       next_id + Cardinality({j \in task.unclassified :
                                                 j < x.id}),
                       x.id, ClassificationData(x, answers[x.id]),
                       ModelVersion) :
                      x \in {y \in content_items :
                                y.id \in task.unclassified}}
          IN  IF \E i \in task.unclassified :
                    ClassificationKeyTaken(classifications, i)
              THEN /\ classifications' = classifications
                   /\ next_id' = next_id
                   /\ returned' = Returned("classify_pending_content",
                                           244, 0)
              ELSE /\ classifications' = classifications \cup added
                   /\ next_id' = next_id + Cardinality(added)
                   /\ returned' = Returned("classify_pending_content",
                                           238, 0)
    /\ classifying' = Leave(classifying, task)
    /\ UNCHANGED <<user_active, data_sources, content_items, preferences,
                   cutoff, briefings, briefing_content, gen, trig, sync,
                   sync_logs, now, call, openai_client>>

\* time passes: the 24-hour window moves past the oldest item inside it
WindowMoves ==
    /\ \E x \in content_items : x.published_at >= cutoff
    /\ cutoff' = cutoff + 1
    /\ UNCHANGED <<user_active, data_sources, content_items, classifications,
                   preferences, briefings, briefing_content, next_id, gen,
                   trig, returned, sync, sync_logs, now, call, openai_client,
                   classifying>>

\* the items the reconciliation runs have stored, each published before the
\* last 24 hours or within them, none classified; the key configured or not
ClassifyInit ==
    /\ user_active = TRUE
    /\ data_sources = {[id |-> TheSource, user_id |-> TheUser,
                        is_active |-> TRUE, source_type |-> "rss",
                        last_sync_at |-> 0]}
    /\ \E pub \in [1..MaxItems -> {0, 1, 2}] :
          content_items = {NewContentItem(i, TheSource, i, pub[i], 0) :
                              i \in 1..MaxItems}
    /\ classifications = {}
    /\ preferences = {}
    /\ cutoff = 1
    /\ briefings = {}
    /\ briefing_content = {}
    /\ next_id = MaxItems + 1
    /\ gen = EmptyBag
    /\ trig = IdleRequest
    /\ returned = Returned("none", 0, 0)
    /\ sync = EmptyBag
    /\ sync_logs = {}
    /\ now = 1
    /\ call = NoCall
    /\ openai_client \in BOOLEAN
    /\ classifying = EmptyBag

ClassifyNext ==
    \/ QueueClassify
    \/ \E task \in ClassifyInFlight : ClassifyBegin(task)
    \/ \E task \in ClassifyInFlight : ClassifyCommit(task)
    \/ WindowMoves

ClassifySpec == ClassifyInit /\ [][ClassifyNext]_vars

\* classify_pending_content is invoked again and again, and every run that
\* was queued is carried through
ClassifyFairSpec ==
    /\ ClassifySpec
    /\ WF_vars(QueueClassify)
    /\ WF_vars(\E task \in ClassifyInFlight : ClassifyBegin(task))
    /\ WF_vars(\E task \in ClassifyInFlight : ClassifyCommit(task))

\* ============================================= one run of the daily sweep
\* generate_daily_briefings as a function of the clock, the user's
\* briefing_time and the store.  Times are seconds since midnight of today.
BRIEFING_GENERATION_START_MINUTES == 10

\* 00:00, 00:05 and 08:00
BriefingTimes == {0, 300, 28800}

\* midnight, and the ends of the window of an 08:00 briefing, each with the
\* second outside it
CurrentTimes == {0, 28199, 28200, 31800, 31801}

OtherDate == "yesterday"

\* lines 164-175: generation_time is briefing_time less the start minutes,
\* time_diff the seconds from it to current_time
TimeDiff(current_time, briefing_time) ==
    current_time - (briefing_time - BRIEFING_GENERATION_START_MINUTES * 60)

SweepCalled(current_time, briefing_time) ==
    [fn |-> "generate_daily_briefings", current_time |-> current_time,
     briefing_time |-> briefing_time]

\* the briefings a store can hold for the user when the sweep runs: none, or
\* one of today or of the day before, in a status the tasks and requests
\* leave behind
StoredBriefings ==
    {{}} \cup
    {{[NewBriefing(1, TheUser, d, st) EXCEPT !.delivered_at = (st = DELIVERED)]}
        : d \in {TheDate, OtherDate}, st \in {GENERATING, FAILED, DELIVERED}}

SweepInit ==
    /\ user_active \in BOOLEAN
    /\ data_sources = {}
    /\ content_items = {}
    /\ classifications = {}
    /\ preferences = {}
    /\ cutoff = 1
    /\ briefings \in StoredBriefings
    /\ briefing_content = {}
    /\ next_id = 2
    /\ gen = EmptyBag
    /\ trig = IdleRequest
    /\ returned = Returned("none", 0, 0)
    /\ sync = EmptyBag
    /\ sync_logs = {}
    /\ now = 1
    /\ call = NoCall
    /\ openai_client = FALSE
    /\ classifying = EmptyBag

\* lines 150-189: the query of line 156 returns the user only while active
\* and not deleted; the loop body runs once for each user returned
SweepRun(current_time, briefing_time) ==
    /\ LET users == IF user_active THEN {TheUser} ELSE {}
           queued == {u \in users :
                         SweepQueues(TimeDiff(current_time, briefing_time),
                                     FindBriefing(briefings, u, TheDate))}
       IN  gen' = IF queued # {} THEN Enqueue(gen) ELSE gen
    /\ call' = SweepCalled(current_time, briefing_time)
    /\ UNCHANGED <<user_active, data_sources, content_items, classifications,
                   preferences, cutoff, briefings, briefing_content, next_id,
                   trig, returned, sync, sync_logs, now, openai_client,
                   classifying>>

SweepNext ==
    /\ call = NoCall
    /\ \E current_time \in CurrentTimes : \E briefing_time \in BriefingTimes :
          SweepRun(current_time, briefing_time)

SweepSpec == SweepInit /\ [][SweepNext]_vars

\* ======================================== the daily sweep, run after run
\* generate_daily_briefings invoked again and again while the clock goes
\* over midnight.  `now` is in seconds since midnight of day 0; the user's
\* briefing_time stays what the run before read (call.briefing_time).
MaxDays == 2

DaySeconds == 86400

\* date.today() and the time of day of datetime.utcnow()
DateOf(t) == t \div DaySeconds
TimeOfDay(t) == t % DaySeconds

\* 30, 55 and 59 minutes: every interval is shorter than one hour
SweepIntervals == {1800, 3300, 3540}

\* 00:00, 00:05, 08:00 and 23:30
UserBriefingTimes == {0, 300, 28800, 84600}

\* the last run of day 0: 23:01, 23:30 or 23:58
LastRunTimes == {82860, 84600, 86280}

\* generate_briefing.delay(str(user.id), today.isoformat())
DatedTask(date) == [pc |-> "queued", date |-> date]

ClockInit ==
    /\ user_active = TRUE
    /\ data_sources = {}
    /\ content_items = {}
    /\ classifications = {}
    /\ preferences = {}
    /\ cutoff = 1
    /\ briefings = {}
    /\ briefing_content = {}
    /\ next_id = 1
    /\ gen = EmptyBag
    /\ trig = IdleRequest
    /\ returned = Returned("none", 0, 0)
    /\ sync = EmptyBag
    /\ sync_logs = {}
    /\ now \in LastRunTimes
    /\ \E briefing_time \in UserBriefingTimes :
          call = SweepCalled(TimeOfDay(now), briefing_time)
    /\ openai_client = FALSE
    /\ classifying = EmptyBag

\* lines 150-189, `interval` seconds after the run before: today and
\* current_time are read from the clock of this run
ClockRun(interval) ==
    /\ DateOf(now + interval) <= MaxDays
    /\ now' = now + interval
    /\ LET today == DateOf(now')
           current_time == TimeOfDay(now')
           users == IF user_active THEN {TheUser} ELSE {}
           queued == {u \in users :
                         SweepQueues(TimeDiff(current_time,
                                              call.briefing_time),
                                     FindBriefing(briefings, u, today))}
       IN  /\ gen' = IF queued # {}
                     THEN gen (+) SetToBag({DatedTask(today)}) ELSE gen
           /\ call' = SweepCalled(current_time, call.briefing_time)
    /\ UNCHANGED <<user_active, data_sources, content_items, classifications,
                   preferences, cutoff, briefings, briefing_content, next_id,
                   trig, returned, sync, sync_logs, openai_client,
                   classifying>>

ClockNext == \E interval \in SweepIntervals : ClockRun(interval)

ClockSpec == ClockInit /\ [][ClockNext]_vars

\* ======================================================= provider clients
\* The paginated fetch of TwitterClient.get_user_timeline,
\* FacebookClient.get_user_feed and InstagramClient.get_user_media: the
\* three loops differ in the name of the cursor only.  A provider is the
\* sequence of pages it answers with, one for each request; a page is its
\* items, whether it names a next page, and whether the request for it is
\* answered with an error status instead.
MaxPages == 3

PageFetchers == {"TwitterClient.get_user_timeline",
                 "FacebookClient.get_user_feed",
                 "InstagramClient.get_user_media"}

\* what a page can hold: nothing, one item, two items
PageItems == {<< >>, <<1>>, <<2, 3>>}

MiddlePages == [items : PageItems, next : {TRUE}, error : {FALSE}]

LastPages ==
    [items : PageItems, next : {FALSE}, error : {FALSE}]
    \cup {[items |-> << >>, next |-> FALSE, error |-> TRUE]}

\* the finite page sequences: the last page names no next page or is an
\* error, the pages before it name the next
Providers ==
    UNION {{front \o <<last>> : front \in [1..k -> MiddlePages],
                                last \in LastPages} : k \in 0..(MaxPages - 1)}

RequestedCounts == 0..(MaxPages + 1)

KeepsFetching_Always(all, max_results) == TRUE

\* while len(all_tweets) < max_results
KeepsFetching(all, max_results) == Len(all) < max_results

PageInit ==
    /\ user_active = TRUE
    /\ data_sources = {}
    /\ content_items = {}
    /\ classifications = {}
    /\ preferences = {}
    /\ cutoff = 1
    /\ briefings = {}
    /\ briefing_content = {}
    /\ next_id = 1
    /\ gen = EmptyBag
    /\ trig = IdleRequest
    /\ returned = Returned("none", 0, 0)
    /\ sync = EmptyBag
    /\ sync_logs = {}
    /\ now = 1
    /\ \E fn \in PageFetchers, pages \in Providers,
          max_results \in RequestedCounts :
          call = [fn |-> fn, pages |-> pages, max_results |-> max_results,
                  pc |-> "loop", all |-> << >>, requested |-> 0,
                  result |-> << >>]
    /\ openai_client = FALSE
    /\ classifying = EmptyBag

\* one pass of the loop: the request, raise_for_status, extend, the cursor
PageFetch ==
    /\ call.pc = "loop"
    /\ KeepsFetching(call.all, call.max_results)
    /\ LET page == call.pages[call.requested + 1]
       IN  call' =
             IF page.error
             THEN [call EXCEPT !.requested = @ + 1, !.pc = "raised"]
             ELSE [call EXCEPT !.requested = @ + 1,
                               !.all = @ \o page.items,
                               !.pc = IF page.next THEN "loop" ELSE "return"]
    /\ UNCHANGED <<user_active, data_sources, content_items, classifications,
                   preferences, cutoff, briefings, briefing_content, next_id,
                   gen, trig, returned, sync, sync_logs, now, openai_client,
                   classifying>>

\* return all_tweets[:max_results], after the break or when the loop's
\* condition fails
PageReturn ==
    /\ \/ call.pc = "return"
       \/ call.pc = "loop" /\ ~KeepsFetching(call.all, call.max_results)
    /\ call' = [call EXCEPT !.pc = "done",
                            !.result = Take(call.all, call.max_results)]
    /\ UNCHANGED <<user_active, data_sources, content_items, classifications,
                   preferences, cutoff, briefings, briefing_content, next_id,
                   gen, trig, returned, sync, sync_logs, now, openai_client,
                   classifying>>

PageNext == PageFetch \/ PageReturn

PageSpec == PageInit /\ [][PageNext]_vars

\* the event loop runs the coroutine to its end
PageFairSpec == PageSpec /\ WF_vars(PageFetch) /\ WF_vars(PageReturn)

\* ====================================================== summary and audio
\* BriefingGenerator.generate_text_summary and generate_audio as functions
\* of the content items and of what their collaborators do.  openai_client
\* is None when OPENAI_API_KEY is not set; a collaborator that is reached
\* either answers or raises.
MaxSummaryItems == 12

\* content_items[:10] of _create_fallback_summary
FALLBACK_SUMMARY_ITEMS == 10

CollaboratorOutcomes == {"answers", "raises"}

\* self.openai_client.chat.completions.create(...) and
\* self.openai_client.audio.speech.create(...): an attribute of None raises
OpenAiRaises(client, outcome) == ~client \/ outcome = "raises"

\* the numbered lines of _create_fallback_summary, one for each of the
\* first ten items
CreateFallbackSummary(items) ==
    [kind |-> "fallback", lines |-> Take(items, FALLBACK_SUMMARY_ITEMS)]

SummaryFallback_Propagates(items) == [raised |-> TRUE, summary |-> NULL]

\* except Exception: return self._create_fallback_summary(content_items)
SummaryFallback(items) ==
    [raised |-> FALSE, summary |-> CreateFallbackSummary(items)]

\* generate_text_summary(content_items, user)
GenerateTextSummary(items, client, chat) ==
    IF OpenAiRaises(client, chat)
    THEN SummaryFallback(items)
    ELSE [raised |-> FALSE, summary |-> [kind |-> "openai", lines |-> << >>]]

\* _generate_with_openai(text)
GenerateWithOpenai(client, tts) ==
    IF OpenAiRaises(client, tts)
    THEN [raised |-> TRUE, audio |-> NULL]
    ELSE [raised |-> FALSE, audio |-> "openai"]

\* generate_audio(text): ElevenLabs when its key is set and it answers,
\* OpenAI TTS otherwise
GenerateAudio(elevenlabs_key, elevenlabs, client, tts) ==
    IF elevenlabs_key /\ elevenlabs = "answers"
    THEN [raised |-> FALSE, audio |-> "elevenlabs",
          tried |-> <<"elevenlabs">>]
    ELSE LET second == GenerateWithOpenai(client, tts)
         IN  [raised |-> second.raised, audio |-> second.audio,
              tried |-> (IF elevenlabs_key THEN <<"elevenlabs">> ELSE << >>)
                        \o <<"openai">>]

RenderInit ==
    /\ user_active = TRUE
    /\ data_sources = {}
    /\ content_items = {}
    /\ classifications = {}
    /\ preferences = {}
    /\ cutoff = 1
    /\ briefings = {}
    /\ briefing_content = {}
    /\ next_id = 1
    /\ gen = EmptyBag
    /\ trig = IdleRequest
    /\ returned = Returned("none", 0, 0)
    /\ sync = EmptyBag
    /\ sync_logs = {}
    /\ now = 1
    /\ call = NoCall
    /\ openai_client \in BOOLEAN
    /\ classifying = EmptyBag

\* generator.generate_text_summary(content_items, user) over n items
SummaryApply(n, chat) ==
    /\ call' = [fn |-> "generate_text_summary", chat |-> chat,
                items |-> [k \in 1..n |-> k],
                outcome |-> GenerateTextSummary([k \in 1..n |-> k],
                                                openai_client, chat)]
    /\ UNCHANGED <<user_active, data_sources, content_items, classifications,
                   preferences, cutoff, briefings, briefing_content, next_id,
                   gen, trig, returned, sync, sync_logs, now, openai_client,
                   classifying>>

\* generator.generate_audio(text_summary) over the summary just made
AudioApply(elevenlabs_key, elevenlabs, tts) ==
    /\ call' = [fn |-> "generate_audio", text |-> call.outcome.summary,
                elevenlabs_key |-> elevenlabs_key,
                elevenlabs |-> elevenlabs, tts |-> tts,
                outcome |-> GenerateAudio(elevenlabs_key, elevenlabs,
                                          openai_client, tts)]
    /\ UNCHANGED <<user_active, data_sources, content_items, classifications,
                   preferences, cutoff, briefings, briefing_content, next_id,
                   gen, trig, returned, sync, sync_logs, now, openai_client,
                   classifying>>

RenderNext ==
    \/ /\ call = NoCall
       /\ \E n \in 0..MaxSummaryItems, chat \in CollaboratorOutcomes :
             SummaryApply(n, chat)
    \/ /\ call.fn = "generate_text_summary"
       /\ \E elevenlabs_key \in BOOLEAN,
             elevenlabs \in CollaboratorOutcomes,
             tts \in CollaboratorOutcomes :
             AudioApply(elevenlabs_key, elevenlabs, tts)

RenderSpec == RenderInit /\ [][RenderNext]_vars

\* ======================================================= sync_all_sources
\* The periodic task that queues the reconciliation runs, beside the runs
\* themselves.  Every run of it reads a later clock.
MaxClock == 5

\* DataSource.sync_frequency_minutes, in ticks of the reconciliation clock
SyncFrequency == 2

\* lines 482-486.  last_sync_at comes back from its DateTime(timezone=True)
\* column of the PostgreSQL store with a time zone, datetime.utcnow() has
\* none, and Python does not subtract the one from the other: line 483
\* raises TypeError for every source that has a last_sync_at.
SyncDue(source, utcnow) ==
    IF source.last_sync_at = 0
    THEN [raised |-> FALSE, due |-> TRUE]
    ELSE [raised |-> TRUE, due |-> FALSE]

\* lines 469-491: the active sources are looked at one by one; an exception
\* ends the task
SyncAllSources ==
    /\ now < MaxClock
    /\ BagCardinality(sync) + Cardinality(sync_logs) < MaxSyncs
    /\ now' = now + 1
    /\ LET sources == {src \in data_sources : src.is_active}
           queued == {src \in sources : SyncDue(src, now).due}
       IN  /\ sync' = IF queued # {}
                      THEN sync (+) SetToBag({QueuedSync}) ELSE sync
           /\ call' = [fn |-> "sync_all_sources", utcnow |-> now,
                       sources |-> data_sources,
                       raised |-> \E src \in sources :
                                     SyncDue(src, now).raised,
                       queued |-> Cardinality(queued)]
    /\ UNCHANGED <<user_active, data_sources, content_items, classifications,
                   preferences, cutoff, briefings, briefing_content, next_id,
                   gen, trig, returned, sync_logs, openai_client,
                   classifying>>

CadenceNext ==
    \/ SyncAllSources
    \/ \E task \in SyncInFlight : SyncBegin(task)
    \/ \E task \in SyncInFlight : SyncItem(task)
    \/ \E task \in SyncInFlight : SyncCommit(task)
    \/ \E task \in SyncInFlight : SyncLogCommit(task)

CadenceSpec == SyncInit /\ [][CadenceNext]_vars

\* ================================================================== claims
BriefingsOf(user_id, date) ==
    {b \in briefings : b.user_id = user_id /\ b.date = date}

IsDelivered == \E b \in BriefingsOf(TheUser, TheDate) : b.status = DELIVERED

\* a queued generate_briefing task is picked up by a worker in this step
TaskStarts == CopiesIn(QueuedTask, gen') < CopiesIn(QueuedTask, gen)

NonEmptyText(m) == m # NULL /\ m # ""

LinksOf(id) == {l \in briefing_content : l.briefing_id = id}

\* a running task past its GENERATING commit ends in this step
Ends(task) == task.pc = "select" /\ gen' = Leave(gen, task)

\* C1: at every moment, under any interleaving of reconciliation runs over
\* a source, no two content items share (source_id, external_id).
C1_DedupInvariant ==
    \A a, b \in content_items :
        a.source_id = b.source_id /\ a.external_id = b.external_id => a = b

\* two runs have finished, one of them ran into uq_content_source_external
\* and the item it collided on is stored
C1_Witness ==
    /\ Cardinality(sync_logs) >= 2
    /\ \E l \in sync_logs : l.error_message = IntegrityErrMsg
    /\ content_items # {}

\* C2, as claimed: a generate_briefing task or a trigger request that starts
\* while the briefing of (user, date) is DELIVERED returns that briefing and
\* leaves the briefing, its links and the set of rows unchanged.
C2_ReturnsDeliveredUnchanged ==
    [][IsDelivered =>
        LET b == FindBriefing(briefings, TheUser, TheDate)
        IN  /\ TaskStarts =>
                /\ briefings' = briefings
                /\ briefing_content' = briefing_content
                /\ gen' = Leave(gen, QueuedTask)
                /\ returned' = Returned("generate_briefing", 51, b.id)
            /\ trig.pc = "idle" =>
                /\ trig'.pc = "idle"
                /\ returned'.op = "trigger_briefing_generation"
                      /\ returned' # returned =>
                      /\ returned' = Returned("trigger_briefing_generation",
                                              109, b.id)
                      /\ briefings' = briefings
                      /\ briefing_content' = briefing_content
                      /\ gen' = gen]_vars

\* C2, amended: the same, except that generate_briefing returns None (line
\* 35) when the user is inactive or deleted by the time the task starts.
C2_DeliveredUnchanged ==
    [][IsDelivered =>
        LET b == FindBriefing(briefings, TheUser, TheDate)
        IN  /\ TaskStarts =>
                /\ briefings' = briefings
                /\ briefing_content' = briefing_content
                /\ gen' = Leave(gen, QueuedTask)
                /\ returned' = IF user_active
                               THEN Returned("generate_briefing", 51, b.id)
                               ELSE Returned("generate_briefing", 35, 0)
            /\ trig.pc = "idle" =>
                /\ trig'.pc = "idle"
                /\ returned'.op = "trigger_briefing_generation"
                      /\ returned' # returned =>
                      /\ returned' = Returned("trigger_briefing_generation",
                                              109, b.id)
                      /\ briefings' = briefings
                      /\ briefing_content' = briefing_content
                      /\ gen' = gen]_vars

\* a task has returned the DELIVERED briefing from its early return
C2_Witness ==
    /\ IsDelivered
    /\ returned.op = "generate_briefing" /\ returned.line = 51
    /\ gen = EmptyBag

\* C3: once the stored status of a briefing is DELIVERED, no step of any
\* task or request changes it.
C3_DeliveredIsTerminal ==
    [][\A b \in briefings : b.status = DELIVERED =>
          RowById(briefings', b.id).status = DELIVERED]_vars

\* C4: at most one Briefing row per (user_id, date).
C4_OneBriefingPerUserDate ==
    \A a \in briefings : \A b \in briefings :
        a.user_id = b.user_id /\ a.date = b.date => a = b

\* two creators raced for the row of (user, date) and the store rejected the
\* second INSERT
C4_Witness ==
    /\ EndedInError(returned)
    /\ Cardinality(BriefingsOf(TheUser, TheDate)) = 1

\* C5: no generation trigger ends in an error, and every trigger that
\* returns a briefing returns the one briefing of (user, date).
C5_NoTriggerEndsInError ==
    /\ ~EndedInError(returned)
    /\ returned.op \in {"generate_briefing", "trigger_briefing_generation"}
          /\ returned.rid # 0
          => returned.rid = FindBriefing(briefings, TheUser, TheDate).id

\* C6: a task whose selector (or a later step) raised after its GENERATING
\* commit ends, unless the briefing has been delivered meanwhile, with the
\* briefing FAILED and the text of the exception in error_message, never
\* GENERATING.
C6_ExceptionEndsFailed ==
    [][\A task \in InFlight :
          /\ Ends(task)
          /\ returned'.line = 127
          /\ RowById(briefings, task.loaded.id).status # DELIVERED
          => LET row == RowById(briefings', task.loaded.id)
             IN  /\ row.status = FAILED
                 /\ row.error_message = ImportErrMsg]_vars

\* C7 (its safety core): when every queued task and every request has run
\* to completion and the user is active, no briefing is GENERATING.
C7_NoneGeneratingWhenQuiescent ==
    user_active /\ gen = EmptyBag /\ trig.pc = "idle" =>
        \A b \in briefings : b.status # GENERATING

\* C8: a task that runs the selector while the store holds no candidate for
\* the user leaves the briefing, unless it has been delivered meanwhile,
\* FAILED, with a non-empty error_message and no links.
C8_NoContentEndsFailedWithoutLinks ==
    [][\A task \in InFlight :
          /\ Ends(task)
          /\ CandidateIds(content_items, classifications, data_sources,
                          preferences, cutoff, TheUser) = {}
          /\ RowById(briefings, task.loaded.id).status # DELIVERED
          => LET row == RowById(briefings', task.loaded.id)
             IN  /\ row.status = FAILED
                 /\ NonEmptyText(row.error_message)
                 /\ {l \in briefing_content' :
                        l.briefing_id = row.id} = {}]_vars

\* C11: a generate_briefing task that ends while the store holds candidates
\* for the user, the briefing not delivered meanwhile, leaves one briefing
\* for (user, date), READY, with exactly one link per selected item;
\* running it again over the same candidates leaves the same.
C11_GenerationLeavesReadyWithOneLinkPerItem ==
    [][\A task \in InFlight :
          /\ Ends(task)
          /\ CandidateIds(content_items, classifications, data_sources,
                          preferences, cutoff, TheUser) # {}
          /\ RowById(briefings, task.loaded.id).status # DELIVERED
          => /\ Cardinality(BriefingsOf(TheUser, TheDate)') = 1
             /\ LET row == RowById(briefings', task.loaded.id)
                    links == {l \in briefing_content' :
                                 l.briefing_id = row.id}
                IN  /\ row.status = READY
                    /\ \E sel \in SelectContent(content_items,
                              classifications, data_sources, preferences,
                              cutoff, TheUser, 0) :
                          /\ Cardinality(links) = Len(sel)
                          /\ {l.content_id : l \in links} = Range(sel)]_vars

\* line 130: the number of items a call asks for
RequestedItems(max_items) ==
    IF max_items = 0 THEN MAX_CONTENT_ITEMS_PER_BRIEFING ELSE max_items

SelectorCalled == call.fn = "select_content_for_briefing"

Candidates ==
    CandidateIds(content_items, classifications, data_sources, preferences,
                 cutoff, TheUser)

\* C12: on every database and for every max_items,
\* select_content_for_briefing returns a list of at most max_items items,
\* sorted by relevance descending, ties by importance descending.
C12_SelectorBoundAndOrder ==
    SelectorCalled =>
        /\ ~call.raised
        /\ call.lists # {}
        /\ \A s \in call.lists :
              /\ Len(s) <= RequestedItems(call.max_items)
              /\ IsRanked(classifications, s)

\* C13: select_content_for_briefing returns exactly the top
\* min(max_items, |C|) items of the candidate set C: nothing outside C,
\* nothing twice, nothing that a candidate left out outranks, and all of C
\* when C is smaller than max_items.
C13_SelectorReturnsTopOfCandidates ==
    SelectorCalled =>
        /\ ~call.raised
        /\ \E s \in call.lists :
              LET n == RequestedItems(call.max_items)
                  size == Cardinality(Candidates)
              IN  /\ Range(s) \subseteq Candidates
                  /\ Cardinality(Range(s)) = Len(s)
                  /\ Len(s) = IF size < n THEN size ELSE n
                  /\ \A y \in Range(s) : \A x \in Candidates \ Range(s) :
                        RankedBefore(classifications, y, x)

\* C14: for a user whose preferences say max_items_per_briefing = k,
\* generate_briefing asks the selector for at most k items and the briefing
\* it produces has at most k links.
C14_ItemsBoundedByPreference ==
    \A p \in preferences :
        p.user_id = TheUser =>
            /\ \A b \in BriefingsOf(TheUser, TheDate) :
                  Cardinality(LinksOf(b.id)) <= p.max_items_per_briefing
            /\ SelectorCalled =>
                  RequestedItems(call.max_items) <= p.max_items_per_briefing

InUnit(score) == 0 <= score /\ score <= ScoreOne

ScoresInUnit(c) ==
    /\ InUnit(c.relevance_score)
    /\ InUnit(c.importance_score)
    /\ InUnit(c.social_score)
    /\ InUnit(c.personal_score)

ClassifierCalled ==
    call.fn \in {"RuleBasedClassifier.classify", "AIClassifier.classify"}

\* the request raised or the answer was malformed: no JSON, no object, an
\* unknown category, a score that is no number
Malformed(response) ==
    \/ response.kind # "object"
    \/ \E key \in DOMAIN response.body :
          /\ response.body[key] # Absent
          /\ IF key = "category"
             THEN ~(response.body[key].type = "string"
                    /\ response.body[key].text \in CategoryType)
             ELSE response.body[key].type # "number"

\* C15: whatever the item and, for the AI-backed strategy, whatever the
\* collaborator answers, the four scores of the classification a classifier
\* returns are within [0.0, 1.0].
C15_ScoresAreClamped ==
    ClassifierCalled /\ ~call.outcome.raised => ScoresInUnit(call.outcome)

\* C16: when the request raises or the answer is malformed,
\* AIClassifier.classify returns what the rule-based classifier returns for
\* the item, and no call of it propagates an exception or returns a category
\* outside the six.
C16_FallbackGuarantee ==
    call.fn = "AIClassifier.classify" =>
        /\ ~call.outcome.raised
        /\ call.outcome.category \in CategoryType
        /\ Malformed(call.response) =>
              call.outcome = RuleBasedClassify(call.content)

\* the collaborator has answered with an unknown category for an item whose
\* text holds keywords, and the call has returned the rule-based result
C16_Witness ==
    /\ call.fn = "AIClassifier.classify"
    /\ call.response.kind = "object"
    /\ call.response.body.category = JsonString("sports")
    /\ call.content.matches.work = 1
    /\ call.outcome = RuleBasedClassify(call.content)
    /\ call.outcome.category = "work"

ClassificationsOf(i) == {c \in classifications : c.content_id = i}

\* C17: while classify_pending_content keeps being invoked, every stored
\* content item eventually has a classification, whatever its published_at
\* and whatever happens to the other items of its batch.
C17_EveryItemEventuallyClassified ==
    \A i \in 1..MaxItems : <>(ClassificationsOf(i) # {})

\* C18: an item never has more than one classification, and no step of any
\* run, alone or beside others, removes or changes a classification that is
\* stored.
C18_OneClassificationNeverReplaced ==
    /\ [](\A x \in content_items : Cardinality(ClassificationsOf(x.id)) <= 1)
    /\ [][classifications \subseteq classifications']_vars

\* two runs had loaded the same unclassified item; the first to commit
\* stored its classification, the second ran into the unique content_id and
\* rolled back
C18_Witness ==
    /\ returned = Returned("classify_pending_content", 244, 0)
    /\ \E x \in content_items : Cardinality(ClassificationsOf(x.id)) = 1

\* the rows the store gains in this step
Grown == Cardinality(content_items') - Cardinality(content_items)

\* C19: the log of a run records as fetched the number of items the
\* provider returned to it, whether or not an id came twice, and the store
\* grows by exactly the number the run records as new: by that number when
\* the adapter commits, by nothing when the log is written.
C19_CountsMatchTheRun ==
    [][\A task \in SyncInFlight :
          /\ task.pc = "loop" /\ task.pos > Len(task.batch) =>
                \A after \in BagToSet(sync') :
                    after.pc = "log" /\ sync' = Step(sync, task, after) =>
                        Grown = after.items_new
          /\ task.pc = "log" /\ sync' = Leave(sync, task) =>
                /\ Grown = 0
                /\ \A log \in sync_logs' \ sync_logs :
                      /\ log.items_fetched = Len(task.batch)
                      /\ log.items_new = task.items_new]_vars

\* C20: a run of sync_data_source over the active source that comes to its
\* end, having succeeded or failed, has added exactly one row to sync_logs,
\* and no step removes or changes a row of sync_logs.
C20_OneLogPerRun ==
    [][/\ sync_logs \subseteq sync_logs'
       /\ \A task \in SyncInFlight :
             task.pc = "log" /\ sync' = Leave(sync, task) =>
                 Cardinality(sync_logs') = Cardinality(sync_logs) + 1]_vars

\* a run over the active source comes to its end in this step
SyncEnds(task) == task.pc = "log" /\ sync' = Leave(sync, task)

\* C21: when a run of sync_data_source over the active source ends, having
\* succeeded or failed, the stored last_sync_at of the source is the start
\* time of that run.
C21_LastSyncIsRunStart ==
    [][\A task \in SyncInFlight :
          SyncEnds(task) =>
              \A s \in data_sources' :
                  s.id = TheSource => s.last_sync_at = task.start_time]_vars

\* C22: the lower bound of the window a run asks its provider for (Twitter,
\* Facebook) is the last_sync_at the source held when the run began, and
\* the run's start time minus 24 hours for a source never synced.
C22_WindowStartsAtPreviousSync ==
    [][\A task \in SyncInFlight :
          task.pc = "queued"
          /\ SourceRow.is_active
          /\ SourceRow.source_type \in {"twitter", "facebook"} =>
              \A after \in BagToSet(sync') :
                  after.pc # "queued" /\ sync' = Step(sync, task, after) =>
                      after.since =
                          {IF SourceRow.last_sync_at # 0
                           THEN SourceRow.last_sync_at
                           ELSE after.start_time - SYNC_LOOKBACK_HOURS}]_vars

\* C23: whatever the type of the source, the log of a run whose fetch from
\* the provider or whose normalisation of a fetched item raised has the
\* status FAILED and a non-empty error_message.
C23_RaisedRunIsLoggedFailed ==
    [][\A task \in SyncInFlight :
          SyncEnds(task) /\ task.raised_in \in {"fetch", "normalize"} =>
              \A log \in sync_logs' \ sync_logs :
                  /\ log.status = SyncFailed
                  /\ NonEmptyText(log.error_message)]_vars

\* C24: when the k-th item of a batch raises while it is processed, the
\* items the run had added for the items before it are stored when the run
\* ends, and the log of the run is written and counts as new the rows the
\* run has created.
C24_PartialResultsKeptAndCounted ==
    [][\A task \in SyncInFlight :
          SyncEnds(task) /\ task.raised_in = "normalize" =>
              /\ \A k \in 1..Len(task.pending_new) :
                    ContentKeyTaken(content_items', TheSource,
                                    task.pending_new[k].external_id)
              /\ \E log \in sync_logs' \ sync_logs :
                    log.items_new = Grown]_vars

\* C25: the log of a run over a source whose type has no adapter, or whose
\* credentials are missing, has the status FAILED and a non-empty
\* error_message.
C25_NoAdapterOrCredentialsIsFailure ==
    [][\A task \in SyncInFlight :
          /\ SyncEnds(task)
          /\ \/ ~Supported(SourceRow.source_type)
             \/ task.raised_in = "credentials"
          => \A log \in sync_logs' \ sync_logs :
                 /\ log.status = SyncFailed
                 /\ NonEmptyText(log.error_message)]_vars

\* C26: a briefing becomes DELIVERED only from READY: every step that stores
\* the status DELIVERED in a row found that row with the status READY.
C26_DeliveredOnlyFromReady ==
    [][\A b \in briefings : \A c \in briefings' :
          c.id = b.id /\ c.status = DELIVERED /\ b.status # DELIVERED
          => b.status = READY]_vars

\* position of a status in the order PENDING, GENERATING, {READY, FAILED},
\* DELIVERED
StatusRank(status) ==
    CASE status = PENDING -> 0
      [] status = GENERATING -> 1
      [] status \in {READY, FAILED} -> 2
      [] status = DELIVERED -> 3

\* C27: the stored status of a briefing only moves forward along PENDING,
\* GENERATING, {READY, FAILED}, DELIVERED: no step of generate_briefing, of
\* the sweep or of a trigger request stores a status that comes earlier in
\* that order than the one the row had; in particular none takes a READY
\* briefing back to GENERATING or to FAILED.
C27_StatusOnlyMovesForward ==
    [][\A b \in briefings : \A c \in briefings' :
          c.id = b.id => StatusRank(c.status) >= StatusRank(b.status)]_vars

\* generation has been requested again for a briefing that is FAILED, or
\* GENERATING with no task at work on it: the one task is still queued, the
\* user is active and the store holds candidates
Retriggered ==
    /\ \E b \in BriefingsOf(TheUser, TheDate) :
          b.status \in {FAILED, GENERATING}
    /\ gen = SetToBag({QueuedTask})
    /\ user_active
    /\ Candidates # {}

\* C28: no permanent lockout: once generation is requested again for a
\* FAILED or stale GENERATING briefing, the task runs and the briefing
\* becomes READY, unless the candidates or the user go away or the briefing
\* is acknowledged meanwhile.
C28_RetriggerEndsReady ==
    Retriggered ~>
        \/ \E b \in BriefingsOf(TheUser, TheDate) : b.status = READY
        \/ IsDelivered
        \/ ~user_active
        \/ Candidates = {}

\* the generate_briefing tasks that have committed GENERATING (line 65) and
\* not yet committed READY or FAILED
Generating ==
    BagCardinality([task \in {t \in InFlight : t.pc = "select"}
                       |-> CopiesIn(task, gen)])

\* C29: generation is serialized per (user, date): at no time are two
\* generate_briefing tasks of the same (user, date) both between their
\* commit of GENERATING and their commit of the terminal status.
C29_OneGenerationAtATime == Generating <= 1

SweepCalledNow == call.fn = "generate_daily_briefings"

\* C30: one run of generate_daily_briefings at time now queues generation
\* for the user and today if and only if the user is active and not deleted,
\* 0 <= now - (today at briefing_time - 10 minutes) <= 1 hour, and the user
\* has no DELIVERED briefing for today; it queues at most one task for the
\* user.
C30_SweepQueuesExactlyTheDue ==
    SweepCalledNow =>
        LET elapsed == call.current_time - (call.briefing_time - 10 * 60)
            due == /\ user_active
                   /\ 0 <= elapsed /\ elapsed <= 60 * 60
                   /\ ~IsDelivered
        IN  /\ CopiesIn(QueuedTask, gen) = (IF due THEN 1 ELSE 0)
            /\ BagCardinality(gen) <= 1

\* the sweep ran at the last second of the window of a user whose briefing
\* of today had failed, and queued the task
C30_Witness ==
    /\ SweepCalledNow
    /\ TimeDiff(call.current_time, call.briefing_time)
           = GENERATION_WINDOW_SECONDS
    /\ \E b \in BriefingsOf(TheUser, TheDate) : b.status = FAILED
    /\ gen = SetToBag({QueuedTask})

\* C31: the sweep does not miss a user: with runs less than an hour apart,
\* for every briefing_time, those of the first ten minutes after midnight
\* included, every date that has gone by had at least one run that queued
\* the active user's generation for that date.
C31_EveryDateIsQueued ==
    \A date \in 1..MaxDays :
        DateOf(now) > date =>
            \E task \in BagToSet(gen) : task.date = date

\* the run `task` is in its loop and the item it is about to handle is
\* stored for the source
Resights(task) ==
    /\ task.pc = "loop"
    /\ task.pos <= Len(task.batch)
    /\ ContentKeyTaken(content_items, TheSource, task.batch[task.pos])

\* C32: Telegram reconciliation: a run that comes to a message whose
\* message_id is stored as a ContentItem of the source adds one to its
\* updated count and goes on to the next message, and no step of a run
\* changes or removes a stored ContentItem of the source.
C32_TelegramKeepsSeenMessages ==
    [][SourceRow.source_type = "telegram" =>
          /\ content_items \subseteq content_items'
          /\ \A task \in SyncInFlight :
                Resights(task) /\ CopiesIn(task, sync') < CopiesIn(task, sync)
                => sync' = Step(sync, task,
                      [task EXCEPT !.pos = task.pos + 1,
                                   !.items_updated = task.items_updated + 1])
      ]_vars

\* a later run of a Telegram source came upon a message an earlier run had
\* stored, and the stored text is still the earlier run's
C32_Witness ==
    /\ SourceRow.source_type = "telegram"
    /\ \E l \in sync_logs : l.items_updated = 1 /\ l.started_at > 1
    /\ \E r \in content_items : r.text_content = TextAt(1)

\* the run `task` commits its adapter's session in this step
AdapterCommits(task) ==
    /\ task.pc = "loop"
    /\ task.pos > Len(task.batch)
    /\ sync' = Step(sync, task, [Flushed(task) EXCEPT !.pc = "log",
                                                      !.status = SyncSuccess])

\* C33: a run of a Twitter, Facebook or Instagram source that comes upon a
\* stored item again writes the fetched text (and metadata and raw payload)
\* over it and leaves its id, source, external_id and published_at as they
\* were; the metadata it writes has the keys the adapter gives to a new
\* item.
C33_ResightOverwritesMutableFields ==
    [][SourceRow.source_type \in {"twitter", "facebook", "instagram"} =>
          /\ \A r \in content_items :
                \E w \in content_items' :
                    /\ w.id = r.id
                    /\ w.source_id = r.source_id
                    /\ w.external_id = r.external_id
                    /\ w.published_at = r.published_at
                    /\ w.metadata_keys =
                           CreatedMetadataKeys(SourceRow.source_type)
          /\ \A task \in SyncInFlight :
                AdapterCommits(task) =>
                    \A u \in task.pending_upd :
                        RowById(content_items', u.id).text_content = u.text
      ]_vars

\* the items of the first k pages of a provider, in the provider's order
RECURSIVE Concatenated(_, _)
Concatenated(pages, k) ==
    IF k = 0 THEN << >>
    ELSE Concatenated(pages, k - 1) \o pages[k].items

PageFetchRan == call.fn \in PageFetchers

\* C34: for every finite sequence of pages, the paginated fetch of the
\* Twitter, Facebook and Instagram clients comes to an end; it asks for a
\* further page only while it has collected fewer items than were asked for
\* and the page before named a next one, stops as soon as either fails, and
\* returns the pages it fetched, concatenated in the provider's order and
\* cut to the number asked for.
C34_PaginationFollowsTheProvider ==
    /\ <>(PageFetchRan /\ call.pc \in {"done", "raised"})
    /\ [](PageFetchRan =>
            /\ call.requested <= Len(call.pages)
            /\ \A k \in 2..call.requested :
                  /\ Len(Concatenated(call.pages, k - 1)) < call.max_results
                  /\ call.pages[k - 1].next
            /\ call.pc = "done" =>
                  /\ call.result =
                        Take(Concatenated(call.pages, call.requested),
                             call.max_results)
                  /\ \/ Len(call.result) = call.max_results
                     \/ /\ call.requested > 0
                        /\ ~call.pages[call.requested].next)

\* a fetch of three items went on to the second page, which named a third,
\* took no more than it was asked for and left the third page alone
C34_Witness ==
    /\ PageFetchRan
    /\ call.pc = "done"
    /\ call.max_results = 3
    /\ call.requested = 2
    /\ Len(call.pages) = 3
    /\ Len(call.all) = 4

\* C35: when the provider answers page k > 1 of a paginated fetch with an
\* error, the fetch ends as a failure and hands the items of the pages
\* 1..k-1 it had fetched to its caller.
C35_PartialPagesSurviveAnError ==
    PageFetchRan /\ call.pc = "raised" /\ call.requested > 1 =>
        call.result = Concatenated(call.pages, call.requested - 1)

C37_QueuedWhenDueAndOnlyOnce ==
    /\ call.fn = "sync_all_sources" =>
          \A src \in call.sources :
              (call.queued = 1) <=>
                  /\ src.is_active
                  /\ \/ src.last_sync_at = 0
                     \/ call.utcnow - src.last_sync_at >= SyncFrequency
    /\ CopiesIn(QueuedSync, sync) <= 1

\* C38: in every SyncLog of a run that ended in success, whatever the type
\* of the source, items_fetched = items_new + items_updated.
C38_FetchedIsNewPlusUpdated ==
    \A l \in sync_logs :
        l.status = SyncSuccess =>
            l.items_fetched = l.items_new + l.items_updated

\* C39: a run of sync_data_source for a source id that is not stored, or
\* whose source is inactive, changes nothing: it ends at once, no
\* ContentItem is created or modified, no SyncLog is appended and the
\* source's last_sync_at stays as it was.
NotSyncable(task) ==
    \A s \in data_sources : s.id = task.source_id => ~s.is_active

SyncRuns(task) ==
    /\ task.pc = "queued"
    /\ CopiesIn(task, sync') < CopiesIn(task, sync)

C39_SkippedSourceChangesNothing ==
    [][\A task \in SyncInFlight :
          NotSyncable(task) /\ SyncRuns(task) =>
              /\ sync' = Leave(sync, task)
              /\ content_items' = content_items
              /\ sync_logs' = sync_logs
              /\ data_sources' = data_sources]_vars

C39_Witness ==
    /\ call = Warned(MissingSource)
    /\ sync = EmptyBag
    /\ SourceRow.is_active
    /\ sync_logs # {}
    /\ content_items # {}

\* C40: a READY briefing carries no error text; the error_message of a
\* briefing is non-empty only while its status is FAILED.
C40_ErrorTextOnlyWhileFailed ==
    \A b \in briefings :
        /\ b.status = READY => ~NonEmptyText(b.error_message)
        /\ NonEmptyText(b.error_message) => b.status = FAILED

\* C9: a FAILED briefing has a non-empty error_message.
C9_FailedHasErrorMessage ==
    \A b \in briefings : b.status = FAILED => NonEmptyText(b.error_message)

\* a generation has failed on the selector's exception
C9_Witness ==
    \E b \in briefings : b.status = FAILED /\ b.error_message = ImportErrMsg

\* C10: the links of a READY briefing have the orders 1..n, each once, n is
\* content_items_count, no item is linked twice, and the order follows the
\* selector's rank.  No reachable state of Spec holds a READY briefing
\* (GenSelect), so the states of Spec say nothing about it.
C10_ReadyLinksAreContiguousAndRanked ==
    \A b \in briefings : b.status = READY =>
        LET L == LinksOf(b.id)
        IN  /\ Cardinality(L) = b.content_items_count
            /\ {l.order : l \in L} = 1..b.content_items_count
            /\ \A l \in L : \A m \in L :
                  /\ l.order = m.order => l = m
                  /\ l.content_id = m.content_id => l = m
                  /\ l.order < m.order =>
                        RankedBefore(classifications, l.content_id,
                                     m.content_id)

====
